---------------------------- MODULE Spec2Model ----------------------------
(***************************************************************************)
(* A model of the table models and the filter proxy of the BI system       *)
(* (src/data_models.py): PandasTableModel, PolarsTableModel and            *)
(* SortFilterProxyModel.                                                   *)
(*                                                                         *)
(* Strings the program shows or parses are sequences of one-character      *)
(* strings, so that formatting, comma stripping and number parsing are     *)
(* computed character by character as the Python code computes them.       *)
(* Floating-point values are fixed-point numbers counted in thousandths.   *)
(***************************************************************************)
EXTENDS Integers, Sequences, FiniteSets, TLC

(***************************************************************************)
(* Bounds of the model.                                                    *)
(***************************************************************************)
MaxRows == 2

(***************************************************************************)
(* Characters and strings.                                                 *)
(***************************************************************************)
DigitChars == <<"0", "1", "2", "3", "4", "5", "6", "7", "8", "9">>

DigitChar(d) == DigitChars[d + 1]

IsDigit(c) == \E d \in 0..9 : DigitChars[d + 1] = c

DigitVal(c) == CHOOSE d \in 0..9 : DigitChars[d + 1] = c

\* Unicode code points of the characters the datasets of the model use
\* (Python compares str values code point by code point).
CodePoint(c) ==
    CASE c = " " -> 32 [] c = "," -> 44 [] c = "-" -> 45 [] c = "." -> 46
      [] c = ":" -> 58
      [] c = "A" -> 65 [] c = "F" -> 70 [] c = "N" -> 78 [] c = "T" -> 84
      [] c = "a" -> 97 [] c = "b" -> 98 [] c = "c" -> 99 [] c = "e" -> 101
      [] c = "f" -> 102 [] c = "i" -> 105 [] c = "l" -> 108 [] c = "n" -> 110
      [] c = "o" -> 111 [] c = "r" -> 114 [] c = "s" -> 115 [] c = "t" -> 116
      [] c = "u" -> 117 [] c = "y" -> 121
      [] OTHER -> IF IsDigit(c) THEN 48 + DigitVal(c) ELSE 0

RECURSIVE DigitsOf(_)
\* The decimal digits of n >= 0.
DigitsOf(n) ==
    IF n < 10 THEN <<DigitChar(n)>>
    ELSE DigitsOf(n \div 10) \o <<DigitChar(n % 10)>>

RECURSIVE Group(_)
\* The "," option of Python's format mini-language: a comma every three
\* digits, counted from the right.
Group(ds) ==
    IF Len(ds) <= 3 THEN ds
    ELSE Group(SubSeq(ds, 1, Len(ds) - 3)) \o <<",">>
         \o SubSeq(ds, Len(ds) - 2, Len(ds))

Pad2(n) == <<DigitChar((n \div 10) % 10), DigitChar(n % 10)>>

Pad4(n) == Pad2(n \div 100) \o Pad2(n % 100)

\* f"{value:,}" of an integer.
FormatInt(n) ==
    IF n < 0 THEN <<"-">> \o Group(DigitsOf(-n)) ELSE Group(DigitsOf(n))

\* Rounding of a non-negative count of thousandths to hundredths, ties to
\* even.
RoundHundredths(a) ==
    LET q == a \div 10
        r == a % 10
    IN  IF r > 5 \/ (r = 5 /\ q % 2 = 1) THEN q + 1 ELSE q

\* f"{value:,.2f}" of a finite float given in thousandths.
FormatFloat2(th) ==
    LET a == IF th < 0 THEN -th ELSE th
        h == RoundHundredths(a)
    IN  (IF th < 0 THEN <<"-">> ELSE <<>>)
        \o Group(DigitsOf(h \div 100)) \o <<".">> \o Pad2(h % 100)

\* strftime("%Y-%m-%d") of a date given as the number yyyymmdd; str() of a
\* datetime.date gives the same text.
FormatDate(d) ==
    Pad4(d \div 10000) \o <<"-">> \o Pad2((d \div 100) % 100)
    \o <<"-">> \o Pad2(d % 100)

\* strftime("%Y-%m-%d %H:%M:%S"); the time of day is the number hhmmss.
FormatDateTime(d, tm) ==
    FormatDate(d) \o <<" ">> \o Pad2(tm \div 10000) \o <<":">>
    \o Pad2((tm \div 100) % 100) \o <<":">> \o Pad2(tm % 100)

StrTrue == <<"T", "r", "u", "e">>
StrFalse == <<"F", "a", "l", "s", "e">>
StrNan == <<"n", "a", "n">>
StrNone == <<"N", "o", "n", "e">>

(***************************************************************************)
(* Cell values of a dataset.  A cell is a record with the same fields for  *)
(* every kind: t the kind, n a number (the integer, the float in           *)
(* thousandths, 0/1 of a boolean, yyyymmdd of a date), tm the time of day  *)
(* hhmmss of a date-time, s the characters of a text.                      *)
(***************************************************************************)
Cell(t, n, tm, s) == [t |-> t, n |-> n, tm |-> tm, s |-> s]

Null == Cell("null", 0, 0, <<>>)
NaN == Cell("nan", 0, 0, <<>>)
IntCell(n) == Cell("int", n, 0, <<>>)
FloatCell(th) == Cell("float", th, 0, <<>>)
TextCell(s) == Cell("text", 0, 0, s)
BoolCell(b) == Cell("bool", IF b THEN 1 ELSE 0, 0, <<>>)
DateCell(d) == Cell("date", d, 0, <<>>)
DateTimeCell(d, tm) == Cell("datetime", d, tm, <<>>)

\* The column types of a dataset.  A further type, "mixed", is a column of
\* Python objects of different classes (str and int), which only a pandas
\* frame holds.
Types == {"int", "float", "text", "bool", "date", "datetime"}

\* The cell values the datasets of the model draw from, per column type.
Dom(t) ==
    CASE t = "int" -> {IntCell(5), IntCell(1234), Null}
      [] t = "float" -> {FloatCell(5000), FloatCell(1234567), NaN, Null}
      [] t = "text" -> {TextCell(<<"a", "b", "c">>), TextCell(<<"1", "2">>), Null}
      [] t = "bool" -> {BoolCell(TRUE), BoolCell(FALSE), Null}
      [] t = "date" -> {DateCell(20240115), DateCell(20231231), Null}
      [] t = "datetime" -> {DateTimeCell(20240115, 235959),
                            DateTimeCell(20240115, 0), Null}
      [] t = "mixed" -> {TextCell(<<"a", "b", "c">>), IntCell(1234), Null}


(***************************************************************************)
(* The state.                                                              *)
(***************************************************************************)
VARIABLES
    columns,  \* the dataset's columns in order: records [name, type]
    rows,     \* the dataset's rows as loaded: rows[i][c] is a cell
    pdData,   \* PandasTableModel._data: the frame's rows in their current
              \* order, each named by its index label (its place in rows)
    plData,   \* PolarsTableModel._data, likewise
    lib,      \* the backend of the model in use: "pandas" or "polars"
    filters,  \* SortFilterProxyModel._filters: <<column name, descriptor>>
              \* pairs in the dict's order
    visible,  \* the source rows (0-based) the proxy accepted when the
              \* filter was last invalidated
    call,     \* the last sort call: its arguments, the frame before it,
              \* the signals it emitted and whether it raised
    obs,      \* the last values read from the two table models
    hist,     \* the last operation of the view, with the specification and
              \* the visible rows the proxy had before it
    snap,     \* a frame a caller of the model holds: the dataset the model
              \* was constructed from, or the frame get_dataframe() last
              \* returned
    app       \* the main window: its current dataset and backend, the table
              \* model installed in the view, the loader threads and the
              \* conversions waiting for their timer

vars ==
    <<columns, rows, pdData, plData, lib, filters, visible, call, obs, hist,
      snap, app>>

ColType(c) == columns[c + 1].type

ColCells(c) == {rows[i][c + 1] : i \in 1..Len(rows)}

ColHasNull(c) == Null \in ColCells(c)

(***************************************************************************)
(* PandasTableModel: what the frame holds.                                 *)
(***************************************************************************)
\* The dtype of a column of the pandas frame as pd.DataFrame, pd.read_csv
\* and DataFrame.to_pandas build it: numpy-backed, so an integer column
\* with a missing value is float64 and a boolean column with a missing
\* value, like text and date-only values, is object.
PandasDtype(c) ==
    LET t == ColType(c)
    IN  CASE t = "int" -> IF ColHasNull(c) THEN "float64" ELSE "int64"
          [] t = "float" -> "float64"
          [] t = "bool" -> IF ColHasNull(c) THEN "object" ELSE "bool"
          [] t = "datetime" -> "datetime64[ns]"
          [] OTHER -> "object"

\* self._data.iloc[row, col]: the Python object of the cell, as a record of
\* its class and its value.
PandasIloc(row, c) ==
    LET cell == rows[pdData[row + 1]][c + 1]
        dt == PandasDtype(c)
    IN  CASE dt = "int64" -> [cls |-> "np.int64", v |-> cell]
          [] dt = "float64" ->
                [cls |-> "np.float64",
                 v |-> CASE cell.t = "null" -> NaN
                         [] cell.t = "int" -> FloatCell(cell.n * 1000)
                         [] OTHER -> cell]
          [] dt = "bool" -> [cls |-> "np.bool_", v |-> cell]
          [] dt = "datetime64[ns]" ->
                IF cell.t = "null" THEN [cls |-> "NaTType", v |-> Null]
                ELSE [cls |-> "Timestamp", v |-> cell]
          [] OTHER ->
                [cls |-> CASE cell.t = "null" -> "NoneType"
                           [] cell.t = "int" -> "int"
                           [] cell.t = "bool" -> "bool"
                           [] cell.t = "date" -> "date"
                           [] OTHER -> "str",
                 v |-> cell]

\* pd.isna(value)
PdIsNa(value) ==
    \/ value.cls \in {"NoneType", "NaTType"}
    \/ value.cls = "np.float64" /\ value.v.t = "nan"

\* str(value) of the objects an object or bool column holds.
PyStr(cell) ==
    CASE cell.t = "null" -> StrNone
      [] cell.t = "nan" -> StrNan
      [] cell.t = "int" -> DigitsOf(cell.n)
      [] cell.t = "bool" -> IF cell.n = 1 THEN StrTrue ELSE StrFalse
      [] cell.t = "date" -> FormatDate(cell.n)
      [] cell.t = "datetime" -> FormatDateTime(cell.n, cell.tm)
      [] OTHER -> cell.s

\* What data() returns: a str, or None.
Str(s) == [k |-> "str", s |-> s]
None == [k |-> "None", s |-> <<>>]

PandasRowCount == Len(pdData)
PolarsRowCount == Len(plData)
ColumnCount == Len(columns)

\* QAbstractTableModel.index(row, column) is a valid index exactly for a
\* cell of the table.
IndexIsValid(rowCount, row, c) ==
    /\ 0 <= row /\ row < rowCount
    /\ 0 <= c /\ c < ColumnCount

\* PandasTableModel.data(index, DisplayRole)
PandasData(row, c) ==
    IF ~IndexIsValid(PandasRowCount, row, c) THEN None
    ELSE LET value == PandasIloc(row, c)
         IN  IF PdIsNa(value) THEN Str(<<>>)
             ELSE IF value.cls \in {"np.int64", "np.float64"}
                  THEN IF value.cls = "np.int64"
                       THEN Str(FormatInt(value.v.n))
                       ELSE Str(FormatFloat2(value.v.n))
             ELSE IF value.cls = "Timestamp"
                  THEN Str(FormatDateTime(value.v.n, value.v.tm))
             ELSE Str(PyStr(value.v))

\* PandasTableModel.headerData(section, Horizontal)
HeaderData(c) == columns[c + 1].name

\* What a call returns, or the exception it raises.
Returned(value) == [exc |-> "none", ret |-> value]
Raised(exc, nothing) == [exc |-> exc, ret |-> nothing]

\* A column label pandas keeps as an int (pd.read_json makes the keys "1",
\* "2" the labels 1, 2; read_csv keeps the header's texts as str).
LabelIsInt(c) == "label" \in DOMAIN columns[c + 1]

\* self._data.dtypes[column], Series.__getitem__ with an int key on the
\* Series of dtypes, which is indexed by the column labels: over int labels
\* the key is a label, and one no column has is a KeyError; over str labels
\* it is a position.
PandasDtypesGetitem(column) ==
    IF \A c \in 0..(ColumnCount - 1) : LabelIsInt(c)
    THEN LET found == {c \in 0..(ColumnCount - 1) :
                          columns[c + 1].label = column}
         IN  IF found = {} THEN Raised("KeyError", "")
             ELSE Returned(PandasDtype(CHOOSE c \in found : TRUE))
    ELSE Returned(PandasDtype(column))

\* PandasTableModel.get_column_dtype(column): the call.
PandasGetColumnDtypeCall(column) ==
    IF column < ColumnCount THEN PandasDtypesGetitem(column)
    ELSE Returned("object")

\* PandasTableModel.get_column_dtype(column): the tag returned.
PandasGetColumnDtype(c) == PandasGetColumnDtypeCall(c).ret

(***************************************************************************)
(* PolarsTableModel.                                                       *)
(***************************************************************************)
\* str(dtype) of the polars column.
PolarsDtypeName(c) ==
    LET t == ColType(c)
    IN  CASE t = "int" -> <<"I", "n", "t", "6", "4">>
          [] t = "float" -> <<"F", "l", "o", "a", "t", "6", "4">>
          [] t = "bool" -> <<"B", "o", "o", "l", "e", "a", "n">>
          [] t = "date" -> <<"D", "a", "t", "e">>
          [] t = "datetime" -> <<"D", "a", "t", "e", "t", "i", "m", "e">>
          [] OTHER -> <<"S", "t", "r", "i", "n", "g">>

\* Python's `sub in s` for strings.
Contains(sub, s) ==
    \E i \in 0..(Len(s) - Len(sub)) : SubSeq(s, i + 1, i + Len(sub)) = sub

\* PolarsTableModel.data(index, DisplayRole)
PolarsData(row, c) ==
    IF ~IndexIsValid(PolarsRowCount, row, c) THEN None
    ELSE LET value == rows[plData[row + 1]][c + 1]
             t == ColType(c)
         IN  IF value.t = "null" THEN Str(<<>>)
             ELSE IF t = "int" THEN Str(FormatInt(value.n))
             ELSE IF t = "float"
                  THEN IF value.t = "nan" THEN Str(StrNan)
                       ELSE Str(FormatFloat2(value.n))
             ELSE IF t = "date" THEN Str(FormatDate(value.n))
             ELSE IF t = "datetime"
                  THEN Str(FormatDateTime(value.n, value.tm))
             ELSE Str(PyStr(value))

\* PolarsTableModel.get_column_dtype(column)
PolarsGetColumnDtype(c) ==
    IF c < ColumnCount
    THEN LET dtype == PolarsDtypeName(c)
         IN  IF Contains(<<"I", "n", "t">>, dtype)
                \/ Contains(<<"U", "I", "n", "t">>, dtype)
             THEN "int64"
             ELSE IF Contains(<<"F", "l", "o", "a", "t">>, dtype)
             THEN "float64"
             ELSE IF Contains(<<"D", "a", "t", "e">>, dtype)
             THEN "datetime64[ns]"
             ELSE "object"
    ELSE "object"

\* PolarsTableModel.get_column_dtype(column): the call.  The column is
\* looked up by its position in self._data.columns.
PolarsGetColumnDtypeCall(column) == Returned(PolarsGetColumnDtype(column))

\* A QModelIndex; it is valid when neither its row nor its column is
\* negative.
QModelIndex(row, col) == [row |-> row, col |-> col]

IsValid(index) == index.row >= 0 /\ index.col >= 0

\* PandasTableModel.data(index, DisplayRole) for any index the caller holds:
\* after index.isValid() the cell is read with self._data.iloc[row, col],
\* which raises IndexError for a position outside the frame.
PandasDataAt(index) ==
    IF ~IsValid(index) THEN Returned(None)
    ELSE IF index.row >= PandasRowCount \/ index.col >= ColumnCount
    THEN Raised("IndexError", None)
    ELSE Returned(PandasData(index.row, index.col))

\* PolarsTableModel.data(index, DisplayRole) for any index the caller holds:
\* the cell is read only if row < rowCount() and col < columnCount(), and
\* the method returns None otherwise.
PolarsDataAt(index) ==
    IF ~IsValid(index) THEN Returned(None)
    ELSE IF index.row < PolarsRowCount /\ index.col < ColumnCount
    THEN Returned(PolarsData(index.row, index.col))
    ELSE Returned(None)

\* FilterDialog.init_ui: the kind of predicate widget built for a column of
\* the given dtype tag ("none": no widget).
FilterKind(dtype) ==
    IF dtype \in {"int64", "float64", "int32", "float32"} THEN "range"
    ELSE IF dtype = "object" THEN "text"
    ELSE IF dtype = "datetime64[ns]" THEN "date"
    ELSE IF dtype = "bool" THEN "bool"
    ELSE "none"

(***************************************************************************)
(* Sorting.                                                                *)
(***************************************************************************)
Asc == "AscendingOrder"
Desc == "DescendingOrder"

RECURSIVE LexLess(_, _)
\* s < t for Python str values.
LexLess(s, t) ==
    IF t = <<>> THEN FALSE
    ELSE IF s = <<>> THEN TRUE
    ELSE IF CodePoint(Head(s)) # CodePoint(Head(t))
         THEN CodePoint(Head(s)) < CodePoint(Head(t))
    ELSE LexLess(Tail(s), Tail(t))

\* a < b for two present values of one type.
Less(a, b) ==
    IF a.t = "text" THEN LexLess(a.s, b.s)
    ELSE a.n < b.n \/ (a.n = b.n /\ a.tm < b.tm)

\* Python's seq[i]: a negative index counts from the end, and an index
\* outside -n .. n-1 raises IndexError.
PyIndexInRange(i, n) == -n <= i /\ i < n

PyIndex(i, n) == IF i < 0 THEN i + n ELSE i

\* The orders of the rows of `data` (each a permutation of it).
Perms(data) ==
    LET n == Len(data)
        ids == {data[i] : i \in 1..n}
    IN  {q \in [1..n -> ids] : \A i, j \in 1..n : q[i] = q[j] => i = j}

\* The place of row x in the frame.
Place(data, x) == CHOOSE i \in 1..Len(data) : data[i] = x

\* DataFrame.sort_values(by=col, ascending=...) with its defaults
\* kind='quicksort', na_position='last': row x has to come before row y when
\* x is present and y missing, or both are present and x's key is the
\* smaller (the larger, descending).  The rows with a missing key are set
\* apart before the sort and appended in the order they have in the frame.
PdPrecedes(data, x, y, c, ascending) ==
    LET a == rows[x][c + 1]
        b == rows[y][c + 1]
        na(v) == v.t \in {"null", "nan"}
    IN  \/ ~na(a) /\ na(b)
        \/ na(a) /\ na(b) /\ Place(data, x) < Place(data, y)
        \/ /\ ~na(a) /\ ~na(b)
           /\ IF ascending THEN Less(a, b) ELSE Less(b, a)

\* sort_values raises TypeError when it has to compare a str with an int.
PdIncomparable(c) ==
    \E a, b \in ColCells(c) : a.t = "text" /\ b.t = "int"

\* A sort that leaves out the rows whose key is missing.
PdSortValuesDroppingNa(data, c, ascending) ==
    LET kept == SelectSeq(data,
                          LAMBDA x : rows[x][c + 1].t \notin {"null", "nan"})
    IN  {q \in Perms(kept) :
            \A i, j \in 1..Len(q) :
                i < j => ~PdPrecedes(kept, q[j], q[i], c, ascending)}

\* The frames sort_values can return.  The default kind is not a stable
\* sort: rows with equal keys come out in any order.
PdSortValues(data, c, ascending) ==
    {q \in Perms(data) :
        \A i, j \in 1..Len(q) :
            i < j => ~PdPrecedes(data, q[j], q[i], c, ascending)}

\* DataFrame.sort(col, descending=...) of polars with its defaults
\* nulls_last=False, maintain_order=False: nulls come first in both
\* directions, in the order they have in the frame, and NaN is greater than
\* every other float.
PlPrecedes(data, x, y, c, descending) ==
    LET a == rows[x][c + 1]
        b == rows[y][c + 1]
        less(u, v) == \/ u.t # "nan" /\ v.t = "nan"
                      \/ u.t # "nan" /\ v.t # "nan" /\ Less(u, v)
    IN  \/ a.t = "null" /\ b.t # "null"
        \/ a.t = "null" /\ b.t = "null" /\ Place(data, x) < Place(data, y)
        \/ /\ a.t # "null" /\ b.t # "null"
           /\ IF descending THEN less(b, a) ELSE less(a, b)

\* The frames polars' sort can return (maintain_order=False: rows with
\* equal keys come out in any order).
PlSort(data, c, descending) ==
    {q \in Perms(data) :
        \A i, j \in 1..Len(q) :
            i < j => ~PlPrecedes(data, q[j], q[i], c, descending)}

AboutToBeChanged == "layoutAboutToBeChanged"
Changed == "layoutChanged"

\* One run of a sort method: the frame it leaves, the signals it emitted in
\* order, and the exception that left it ("none": it returned).
Outcome(data, signals, raised) ==
    [data |-> data, signals |-> signals, raised |-> raised]

\* PandasTableModel.sort(column, order): every way the call can end.
PandasSort(column, order) ==
    IF ~PyIndexInRange(column, ColumnCount)
    THEN {Outcome(pdData, <<AboutToBeChanged>>, "IndexError")}
    ELSE LET c == PyIndex(column, ColumnCount)
             ascending == (order = Asc)
         IN  IF PdIncomparable(c)
             THEN {Outcome(pdData, <<AboutToBeChanged, Changed>>, "none")}
             ELSE {Outcome(q, <<AboutToBeChanged, Changed>>, "none") :
                      q \in PdSortValues(pdData, c, ascending)}

\* PolarsTableModel.sort(column, order): every way the call can end.
PolarsSort(column, order) ==
    IF ~PyIndexInRange(column, ColumnCount)
    THEN {Outcome(plData, <<AboutToBeChanged>>, "IndexError")}
    ELSE LET c == PyIndex(column, ColumnCount)
             descending == (order = Desc)
         IN  {Outcome(q, <<AboutToBeChanged, Changed>>, "none") :
                 q \in PlSort(plData, c, descending)}

(***************************************************************************)
(* SortFilterProxyModel: the predicates.                                   *)
(***************************************************************************)
\* A value of a descriptor's key: k = "absent" when the dict has no such
\* key, "float" with n the number in thousandths.
Absent == [k |-> "absent", n |-> 0]
Float(th) == [k |-> "float", n |-> th]

\* The floats 1e9 (sign 1) and -1e9 (sign -1), which are beyond the numbers
\* written in thousandths.
Float1e9(sign) == [k |-> "float1e9", n |-> sign]

\* Further values of a descriptor's key: None, a bool, an int, a
\* datetime.date (n the number yyyymmdd); a str is Str(s).
PyNone == [k |-> "None", n |-> 0]
Bool(b) == [k |-> "bool", n |-> IF b THEN 1 ELSE 0]
PyInt(n) == [k |-> "int", n |-> n]
Date(d) == [k |-> "date", n |-> d]

\* A predicate descriptor (the dict filter_data).
RangeFilter(min, max) == [type |-> "range", min |-> min, max |-> max]
TextFilter(value) == [type |-> "text", value |-> value]
DateFilter(from, to) == [type |-> "date", from |-> from, to |-> to]
BoolFilter(value) == [type |-> "bool", value |-> value]

\* A Python float: a finite number in thousandths, nan, inf or -inf.  A
\* bound of a range descriptor may also be None.
Num(th) == [kind |-> "num", v |-> th]
NoneBound == [kind |-> "None", v |-> 0]
FNan == [kind |-> "nan", v |-> 0]
PosInf == [kind |-> "inf", v |-> 0]
NegInf == [kind |-> "-inf", v |-> 0]

\* What a piece of Python code did: returned ret, or raised exc.
Return(ret) == [exc |-> "none", ret |-> ret]
Raise(exc) == [exc |-> exc, ret |-> FALSE]

\* 1e9 and -1e9 as Python floats.
Num1e9(sign) == [kind |-> IF sign < 0 THEN "-1e9" ELSE "1e9", v |-> 0]

\* Where a float that is not nan or infinite lies: below, among or above the
\* numbers written in thousandths.
Magnitude(a) ==
    CASE a.kind = "-1e9" -> -1
      [] a.kind = "1e9" -> 1
      [] OTHER -> 0

\* a <= b for Python floats.
FloatLe(a, b) ==
    IF a.kind = "nan" \/ b.kind = "nan" THEN FALSE
    ELSE IF a.kind = "-inf" \/ b.kind = "inf" THEN TRUE
    ELSE IF a.kind = "inf" \/ b.kind = "-inf" THEN FALSE
    ELSE IF Magnitude(a) # Magnitude(b) THEN Magnitude(a) < Magnitude(b)
    ELSE a.v <= b.v

\* str.lower() of a character.  The Cyrillic letters of the boolean tokens
\* are written by their code points: U+0434 U+0430 is "da", U+043D U+0435
\* U+0442 is "net"; U+0414 and U+0410 are the capitals of the first two.
Lower(c) ==
    CASE c = "A" -> "a" [] c = "F" -> "f" [] c = "N" -> "n" [] c = "T" -> "t"
      [] c = "E" -> "e" [] c = "O" -> "o" [] c = "S" -> "s" [] c = "W" -> "w"
      [] c = "Y" -> "y"
      [] c = "U+0414" -> "U+0434" [] c = "U+0410" -> "U+0430"
      [] OTHER -> c

LowerStr(s) == [i \in 1..Len(s) |-> Lower(s[i])]

RECURSIVE Replace(_, _)
\* s.replace(ch, '')
Replace(s, ch) ==
    IF s = <<>> THEN <<>>
    ELSE IF Head(s) = ch THEN Replace(Tail(s), ch)
    ELSE <<Head(s)>> \o Replace(Tail(s), ch)

RECURSIVE LStrip(_)
LStrip(s) == IF s # <<>> /\ Head(s) = " " THEN LStrip(Tail(s)) ELSE s

RECURSIVE RStrip(_)
RStrip(s) ==
    IF s # <<>> /\ s[Len(s)] = " " THEN RStrip(SubSeq(s, 1, Len(s) - 1))
    ELSE s

RECURSIVE NumOf(_)
\* The number a sequence of digits writes.
NumOf(ds) ==
    IF ds = <<>> THEN 0
    ELSE NumOf(SubSeq(ds, 1, Len(ds) - 1)) * 10 + DigitVal(ds[Len(ds)])

AllDigits(s) == \A i \in 1..Len(s) : IsDigit(s[i])

\* The first three decimals of a fraction's digits, as thousandths.
Thousandths(fp) ==
    NumOf(SubSeq(fp \o <<"0", "0", "0">>, 1, 3))

\* float(s) of Python for the texts the model shows: blanks around the
\* number are dropped, then an optional sign and either nan, inf, infinity
\* (in any case) or digits with at most one point and at least one digit;
\* anything else raises ValueError.  (Exponents and underscores, which
\* float() also reads, occur in no text of the model.)
ParseFloat(s) ==
    LET t == RStrip(LStrip(s))
        signed == t # <<>> /\ Head(t) \in {"-", "+"}
        neg == t # <<>> /\ Head(t) = "-"
        u == IF signed THEN Tail(t) ELSE t
        w == LowerStr(u)
        dots == {i \in 1..Len(u) : u[i] = "."}
        dot == IF dots = {} THEN Len(u) + 1
               ELSE CHOOSE i \in dots : \A j \in dots : i <= j
        ip == SubSeq(u, 1, dot - 1)
        fp == SubSeq(u, dot + 1, Len(u))
    IN  IF w = <<"n", "a", "n">> THEN [exc |-> "none", val |-> FNan]
        ELSE IF w \in {<<"i", "n", "f">>,
                       <<"i", "n", "f", "i", "n", "i", "t", "y">>}
        THEN [exc |-> "none", val |-> IF neg THEN NegInf ELSE PosInf]
        ELSE IF /\ AllDigits(ip) /\ AllDigits(fp)
                /\ Len(ip) + Len(fp) >= 1
        THEN [exc |-> "none",
              val |-> Num((IF neg THEN -1 ELSE 1)
                          * (NumOf(ip) * 1000 + Thousandths(fp)))]
        ELSE [exc |-> "ValueError", val |-> FNan]

\* str(value) of what data() returned.
StrOf(value) == IF value.k = "None" THEN StrNone ELSE value.s

\* filter_data.get(key, default) of a bound of a range descriptor, as a
\* Python float.
GetBound(v, default) ==
    IF v.k = "absent" THEN default
    ELSE IF v.k = "None" THEN NoneBound
    ELSE IF v.k = "float1e9" THEN Num1e9(v.n)
    ELSE Num(v.n)

\* min_val <= num_val <= max_val: the second comparison is made only when
\* the first is true, and comparing None with a float raises TypeError.
Between(min_val, num_val, max_val) ==
    IF min_val.kind = "None" THEN Raise("TypeError")
    ELSE IF ~FloatLe(min_val, num_val) THEN Return(FALSE)
    ELSE IF max_val.kind = "None" THEN Raise("TypeError")
    ELSE Return(FloatLe(num_val, max_val))

\* The range branch without replace(',', '').
RangeTryKeepCommas(value, filter_data) ==
    LET min_val == GetBound(filter_data.min, NegInf)
        max_val == GetBound(filter_data.max, PosInf)
        num_val == ParseFloat(StrOf(value))
    IN  IF num_val.exc # "none" THEN Raise(num_val.exc)
        ELSE Between(min_val, num_val.val, max_val)

\* The inner try of the range branch: float(str(value).replace(',', ''))
\* and the comparison with the bounds.
RangeTry(value, filter_data) ==
    LET min_val == GetBound(filter_data.min, NegInf)
        max_val == GetBound(filter_data.max, PosInf)
        num_val == ParseFloat(Replace(StrOf(value), ","))
    IN  IF num_val.exc # "none" THEN Raise(num_val.exc)
        ELSE Between(min_val, num_val.val, max_val)

\* except TypeError: return False
RangeExceptTypeErrorOnly(out) ==
    IF out.exc = "TypeError" THEN Return(FALSE) ELSE out

\* except (ValueError, TypeError): return False
RangeExcept(out) ==
    IF out.exc \in {"ValueError", "TypeError"} THEN Return(FALSE) ELSE out

\* The text branch with the search text compared as it was typed.
TextBranchNoLower(value, filter_data) ==
    LET v == filter_data.value
    IN  IF v.k = "absent" THEN Return(TRUE)
        ELSE IF v.k # "str" THEN Raise("AttributeError")
        ELSE IF v.s = <<>> THEN Return(TRUE)
        ELSE Return(Contains(v.s, LowerStr(StrOf(value))))

\* The text branch: filter_data.get('value', '').lower() (a value that is
\* no str has no lower()), and `search_text in str(value).lower()`.
TextBranch(value, filter_data) ==
    LET v == filter_data.value
    IN  IF v.k = "absent" THEN Return(TRUE)
        ELSE IF v.k # "str" THEN Raise("AttributeError")
        ELSE LET search_text == LowerStr(v.s)
             IN  IF search_text = <<>> THEN Return(TRUE)
                 ELSE Return(Contains(search_text, LowerStr(StrOf(value))))

RECURSIVE Split(_, _)
\* The pieces of s between the occurrences of the character ch.
Split(s, ch) ==
    LET at == {i \in 1..Len(s) : s[i] = ch}
    IN  IF at = {} THEN <<s>>
        ELSE LET i == CHOOSE j \in at : \A k \in at : j <= k
             IN  <<SubSeq(s, 1, i - 1)>> \o Split(SubSeq(s, i + 1, Len(s)), ch)

\* A numeric directive of strptime other than %Y: one or two digits writing
\* a number from lo to hi.
TwoDigitField(f, lo, hi) ==
    /\ Len(f) \in {1, 2} /\ AllDigits(f)
    /\ lo <= NumOf(f) /\ NumOf(f) <= hi

\* The days of a month of the proleptic Gregorian calendar.
DaysIn(y, m) ==
    IF m = 2
    THEN IF (y % 4 = 0 /\ y % 100 # 0) \/ y % 400 = 0 THEN 29 ELSE 28
    ELSE IF m \in {4, 6, 9, 11} THEN 30 ELSE 31

\* The date of the fields year, month, day as strptime reads them (%Y is
\* four digits), or ValueError: a field does not match, or there is no such
\* day.
FieldsDate(yf, mf, df) ==
    IF /\ Len(yf) = 4 /\ AllDigits(yf)
       /\ TwoDigitField(mf, 1, 12) /\ TwoDigitField(df, 1, 31)
       /\ NumOf(yf) >= 1
       /\ NumOf(df) <= DaysIn(NumOf(yf), NumOf(mf))
    THEN [exc |-> "none", d |-> NumOf(yf) * 10000 + NumOf(mf) * 100 + NumOf(df)]
    ELSE [exc |-> "ValueError", d |-> 0]

\* datetime.strptime(value, "%Y-%m-%d"), as the date of the result.
StrpDate(s) ==
    LET f == Split(s, "-")
    IN  IF Len(f) = 3 THEN FieldsDate(f[1], f[2], f[3])
        ELSE [exc |-> "ValueError", d |-> 0]

\* datetime.strptime(value, "%Y-%m-%d %H:%M:%S"), as the date of the
\* result; the blank of the format stands for one or more blanks.
StrpDateTime(s) ==
    LET p == Split(s, " ")
        n == Len(p)
        t == Split(p[n], ":")
    IN  IF /\ n >= 2 /\ \A i \in 2..(n - 1) : p[i] = <<>>
           /\ Len(t) = 3
           /\ TwoDigitField(t[1], 0, 23) /\ TwoDigitField(t[2], 0, 59)
           /\ TwoDigitField(t[3], 0, 59)
        THEN StrpDate(p[1])
        ELSE [exc |-> "ValueError", d |-> 0]

\* datetime.strptime(value, "%d.%m.%Y"), as the date of the result.
StrpDotted(s) ==
    LET f == Split(s, ".")
    IN  IF Len(f) = 3 THEN FieldsDate(f[3], f[2], f[1])
        ELSE [exc |-> "ValueError", d |-> 0]

\* The loop over the three formats: the first that parses gives the date;
\* exc = "none of them" when the loop ends without a break.
ParseDate(s) ==
    IF StrpDateTime(s).exc = "none" THEN StrpDateTime(s)
    ELSE IF StrpDate(s).exc = "none" THEN StrpDate(s)
    ELSE IF StrpDotted(s).exc = "none" THEN StrpDotted(s)
    ELSE [exc |-> "none of them", d |-> 0]

\* The comparison of the date branch with both bounds excluded.
DateBetweenExclusive(date_from, d, date_to) ==
    IF date_from.k # "date" THEN Raise("TypeError")
    ELSE IF ~(date_from.n < d) THEN Return(FALSE)
    ELSE IF date_to.k # "date" THEN Raise("TypeError")
    ELSE Return(d < date_to.n)

\* date_from <= d <= date_to for a datetime.date d: the second comparison is
\* made only when the first is true, and comparing a date with anything
\* that is no date raises TypeError.
DateBetween(date_from, d, date_to) ==
    IF date_from.k # "date" THEN Raise("TypeError")
    ELSE IF ~(date_from.n <= d) THEN Return(FALSE)
    ELSE IF date_to.k # "date" THEN Raise("TypeError")
    ELSE Return(d <= date_to.n)

\* filter_data.get(key): None when the dict has no such key.
Get(v) == IF v.k = "absent" THEN PyNone ELSE v

\* The inner try of the date branch.
DateTry(value, filter_data) ==
    LET date_from == Get(filter_data.from)
        date_to == Get(filter_data.to)
    IN  IF value.k = "str"
        THEN LET date_val == ParseDate(value.s)
             IN  IF date_val.exc # "none" THEN Return(FALSE)
                 ELSE DateBetween(date_from, date_val.d, date_to)
        ELSE Raise("AttributeError")

\* except (ValueError, TypeError, AttributeError): return False
DateExcept(out) ==
    IF out.exc \in {"ValueError", "TypeError", "AttributeError"}
    THEN Return(FALSE) ELSE out

\* The tokens of the bool branch.
TrueTokens ==
    {<<"t", "r", "u", "e">>, <<"1">>, <<"U+0434", "U+0430">>,
     <<"y", "e", "s">>}

FalseTokens ==
    {<<"f", "a", "l", "s", "e">>, <<"0">>, <<"U+043D", "U+0435", "U+0442">>,
     <<"n", "o">>}

\* The bool branch without lower().
BoolBranchNoLower(value, filter_data) ==
    LET filter_value == Get(filter_data.value)
        value_str == StrOf(value)
    IN  IF filter_value = Bool(TRUE) THEN Return(value_str \in TrueTokens)
        ELSE IF filter_value = Bool(FALSE)
        THEN Return(value_str \in FalseTokens)
        ELSE Return(TRUE)

\* The bool branch: `filter_value is True`, `filter_value is False`, and the
\* return True of the method's end for any other value.
BoolBranch(value, filter_data) ==
    LET filter_value == Get(filter_data.value)
        value_str == LowerStr(StrOf(value))
    IN  IF filter_value = Bool(TRUE) THEN Return(value_str \in TrueTokens)
        ELSE IF filter_value = Bool(FALSE)
        THEN Return(value_str \in FalseTokens)
        ELSE Return(TRUE)

\* except Exception: return True
OuterExcept(out) == IF out.exc # "none" THEN Return(TRUE) ELSE out

\* apply_filter rejecting the value when the descriptor is of no known type.
apply_filterRejectingUnknown(value, filter_data) ==
    OuterExcept(
        IF filter_data.type = "range"
        THEN RangeExcept(RangeTry(value, filter_data))
        ELSE IF filter_data.type = "text"
        THEN TextBranch(value, filter_data)
        ELSE IF filter_data.type = "date"
        THEN DateExcept(DateTry(value, filter_data))
        ELSE IF filter_data.type = "bool"
        THEN BoolBranch(value, filter_data)
        ELSE Return(FALSE))

\* SortFilterProxyModel.apply_filter(value, filter_data)
apply_filter(value, filter_data) ==
    OuterExcept(
        IF filter_data.type = "range"
        THEN RangeExcept(RangeTry(value, filter_data))
        ELSE IF filter_data.type = "text"
        THEN TextBranch(value, filter_data)
        ELSE IF filter_data.type = "date"
        THEN DateExcept(DateTry(value, filter_data))
        ELSE IF filter_data.type = "bool"
        THEN BoolBranch(value, filter_data)
        ELSE Return(TRUE))

\* The source model's data(index(row, col), DisplayRole).
SourceData(row, c) ==
    IF lib = "pandas" THEN PandasData(row, c) ELSE PolarsData(row, c)

SourceRowCount == IF lib = "pandas" THEN PandasRowCount ELSE PolarsRowCount

\* The column lookup falling back to the first column when no label is
\* col_name.
ColIndexOrFirst(col_name) ==
    LET hits == {i \in 0..(ColumnCount - 1) : HeaderData(i) = col_name}
    IN  IF hits = {} THEN 0
        ELSE CHOOSE i \in hits : \A j \in hits : i <= j

\* The loop over the header labels: the first column whose label is
\* col_name, or -1.
ColIndex(col_name) ==
    LET hits == {i \in 0..(ColumnCount - 1) : HeaderData(i) = col_name}
    IN  IF hits = {} THEN -1
        ELSE CHOOSE i \in hits : \A j \in hits : i <= j

RECURSIVE AcceptsFrom(_, _, _)
\* The loop of filterAcceptsRow from the k-th item of the given filters on.
AcceptsFrom(fs, k, source_row) ==
    IF k > Len(fs) THEN Return(TRUE)
    ELSE LET col_index == ColIndex(fs[k][1])
         IN  IF col_index = -1 THEN AcceptsFrom(fs, k + 1, source_row)
             ELSE LET out == apply_filter(SourceData(source_row, col_index),
                                          fs[k][2])
                  IN  IF out.exc # "none" THEN out
                      ELSE IF ~out.ret THEN Return(FALSE)
                      ELSE AcceptsFrom(fs, k + 1, source_row)

\* filterAcceptsRow returning what the first predicate of a column of the
\* model says.
filterAcceptsRowFirstOnly(fs, source_row) ==
    LET hits == {k \in 1..Len(fs) : ColIndex(fs[k][1]) # -1}
    IN  IF hits = {} THEN Return(TRUE)
        ELSE LET k == CHOOSE i \in hits : \A j \in hits : i <= j
             IN  apply_filter(SourceData(source_row, ColIndex(fs[k][1])),
                              fs[k][2])

\* SortFilterProxyModel.filterAcceptsRow(source_row, source_parent) under
\* the given filters.
filterAcceptsRow(fs, source_row) == AcceptsFrom(fs, 1, source_row)

RECURSIVE AcceptedRows(_, _)
\* The source rows from `row` on that the proxy shows, in source order.
AcceptedRows(fs, row) ==
    IF row >= SourceRowCount THEN <<>>
    ELSE LET out == filterAcceptsRow(fs, row)
         IN  (IF out.exc = "none" /\ out.ret THEN <<row>> ELSE <<>>)
             \o AcceptedRows(fs, row + 1)

(***************************************************************************)
(* Datasets and initial states.                                            *)
(***************************************************************************)
Libs == {"pandas", "polars"}

Column(name, type) == [name |-> name, type |-> type]

\* A column whose label is an int; name is str(label).
IntColumn(label, type) ==
    [name |-> DigitsOf(label)[1], type |-> type, label |-> label]

Ident(n) == [i \in 1..n |-> i]

\* The last sort call of a model; fn = "none" before the first one.
NoCall ==
    [fn |-> "none", column |-> 0, order |-> Asc, before |-> <<>>,
     signals |-> <<>>, raised |-> "none"]

\* The last read of both models; aligned: the two frames had their rows in
\* the same order when it was made.
NoObs ==
    [op |-> "none", row |-> 0, col |-> 0, aligned |-> TRUE, pd |-> None,
     pl |-> None]

\* The view before any of its operations.  Of an operation it keeps the
\* name, the specification passed to set_filters (arg), and the
\* specification and the visible rows the proxy had before it.
NoHist == [op |-> "none", arg |-> <<>>, filters |-> <<>>, visible |-> <<>>]

Hist(op, arg) ==
    [op |-> op, arg |-> arg, filters |-> filters, visible |-> visible]

\* No frame has been handed out.
NoSnap ==
    [taken |-> FALSE, shared |-> FALSE, frame |-> <<>>, edited |-> FALSE,
     sorted |-> FALSE]

\* The main window is not part of the system.
NoApp == [on |-> FALSE]

(***************************************************************************)
(* The loader thread and the main window.  A frame is known by its         *)
(* backend, by the content it was loaded from, and by whether it holds a   *)
(* column of Python objects of different classes.                          *)
(***************************************************************************)
\* The loader threads started.
MaxThreads == 2

\* The conversions waiting for their timer at one time.
MaxTimers == 2

DataFrame(backend, content, mixed) ==
    [backend |-> backend, content |-> content, mixed |-> mixed]

\* None as a dataset.
NoFrame == DataFrame("None", <<"", "none">>, FALSE)

\* A file path and what the file holds: a table ("plain"), a table with a
\* column of values of different classes ("mixed"), or nothing a reader
\* accepts ("unreadable").
File(ext, holds) == [ext |-> ext, holds |-> holds]

\* file_path = None: test data are generated.
NoFile == File("", "test")

Extensions == {".csv", ".parquet", ".xlsx", ".json", ".txt"}

Holds == {"plain", "mixed", "unreadable"}

\* The name the content of a file goes by.
ContentOf(file) == <<file.ext, file.holds>>

\* pd.read_csv, pd.read_parquet, pd.read_excel, pd.read_json: a pandas
\* frame, or an exception for a file the reader does not accept.
PdRead(file) ==
    IF file.holds = "unreadable" THEN Raised("Exception", NoFrame)
    ELSE Returned(DataFrame("pandas", ContentOf(file), file.holds = "mixed"))

\* pl.read_csv, pl.read_parquet, pl.read_json: a polars frame, each column
\* of one dtype, or an exception.
PlRead(file) ==
    IF file.holds = "unreadable" THEN Raised("Exception", NoFrame)
    ELSE Returned(DataFrame("polars", ContentOf(file), FALSE))

\* pl.from_pandas(df): raises for a column of objects of different classes.
PlFromPandas(df) ==
    IF df.backend # "pandas" THEN Raised("TypeError", NoFrame)
    ELSE IF df.mixed THEN Raised("Exception", NoFrame)
    ELSE Returned(DataFrame("polars", df.content, FALSE))

\* df.to_pandas() of a polars frame.
ToPandas(df) ==
    IF df.backend # "polars" THEN Raised("AttributeError", NoFrame)
    ELSE Returned(DataFrame("pandas", df.content, FALSE))

\* DataConverter.pandas_to_polars(df_pd)
pandas_to_polars(df_pd) == PlFromPandas(df_pd)

\* DataConverter.polars_to_pandas(df_pl)
polars_to_pandas(df_pl) == ToPandas(df_pl)

\* DataLoaderThread.generate_test_data()
generate_test_data(data_lib) ==
    IF data_lib = "pandas"
    THEN Returned(DataFrame("pandas", ContentOf(NoFile), FALSE))
    ELSE Returned(DataFrame("polars", ContentOf(NoFile), FALSE))

\* The file branches of run with the Excel branch leaving the pandas frame
\* as it is read.
ReadFileExcelAsRead(file, data_lib) ==
    IF file.ext = ".xlsx" THEN PdRead(file)
    ELSE IF data_lib = "pandas" THEN PdRead(file) ELSE PlRead(file)

\* DataLoaderThread.run: the branches on the file's extension.
ReadFile(file, data_lib) ==
    IF file.ext = ".csv"
    THEN IF data_lib = "pandas" THEN PdRead(file) ELSE PlRead(file)
    ELSE IF file.ext = ".parquet"
    THEN IF data_lib = "pandas" THEN PdRead(file) ELSE PlRead(file)
    ELSE IF file.ext \in {".xlsx", ".xls"}
    THEN LET df == PdRead(file)
         IN  IF df.exc = "none" /\ data_lib = "polars"
             THEN PlFromPandas(df.ret) ELSE df
    ELSE IF file.ext = ".json"
    THEN IF data_lib = "pandas" THEN PdRead(file) ELSE PlRead(file)
    ELSE IF data_lib = "pandas" THEN PdRead(file) ELSE PlRead(file)

\* The signals of DataLoaderThread.
ProgressUpdated(n) ==
    [sig |-> "progress_updated", df |-> NoFrame, data_lib |-> "", n |-> n]
DataLoaded(df, data_lib) ==
    [sig |-> "data_loaded", df |-> df, data_lib |-> data_lib, n |-> 0]
ErrorOccurred ==
    [sig |-> "error_occurred", df |-> NoFrame, data_lib |-> "", n |-> 0]

\* DataLoaderThread.run(): the signals emitted, in order.
run(file, data_lib) ==
    LET df == IF file # NoFile THEN ReadFile(file, data_lib)
              ELSE generate_test_data(data_lib)
    IN  (IF file # NoFile THEN <<ProgressUpdated(10)>> ELSE <<>>)
        \o (IF df.exc = "none"
            THEN <<ProgressUpdated(100), DataLoaded(df.ret, data_lib)>>
            ELSE <<ErrorOccurred>>)

\* DataLoaderThread.__init__ and start(): a thread that has not run yet.
DataLoaderThread(file, data_lib) ==
    [file |-> file, data_lib |-> data_lib, pc |-> "started",
     emitted |-> <<>>]

\* The table model installed in the data view: its class and the frame it
\* was constructed over.
TableModel(cls, df) == [cls |-> cls, df |-> df]

NoModel == TableModel("None", NoFrame)

\* DataViewWidget.set_data(df, data_lib): the model installed, or the
\* exception (the constructors call data.copy() and data.clone(), which a
\* frame of the other backend does not have).
set_data(df, data_lib) ==
    IF data_lib = "pandas"
    THEN IF df.backend = "pandas" THEN Returned(TableModel("pandas", df))
         ELSE Raised("AttributeError", NoModel)
    ELSE IF data_lib = "polars"
    THEN IF df.backend = "polars" THEN Returned(TableModel("polars", df))
         ELSE Raised("AttributeError", NoModel)
    ELSE Raised("ValueError", NoModel)

\* The last handler of the main window that ran, and whether the load or
\* the conversion it stands for failed.
Handled(op, failed) == [op |-> op, failed |-> failed]

\* MainWindow.__init__: no data, no loader thread, no timer; the data view
\* has no table model.
NewApp ==
    [on |-> TRUE, threads |-> <<>>, events |-> <<>>, timers |-> <<>>,
     current_data |-> NoFrame, current_data_lib |-> "pandas",
     model |-> NoModel, last |-> Handled("none", FALSE)]

\* MainWindow.on_data_loaded(result)
on_data_loaded(w, result) ==
    LET view == set_data(result.df, result.data_lib)
    IN  [w EXCEPT !.current_data = result.df,
                  !.current_data_lib = result.data_lib,
                  !.model = IF view.exc = "none" THEN view.ret ELSE @,
                  !.last = Handled("on_data_loaded", view.exc # "none")]

\* MainWindow.on_load_error(error_msg)
on_load_error(w) == [w EXCEPT !.last = Handled("on_load_error", TRUE)]

\* perform_conversion leaving current_data_lib as it is.
perform_conversionKeepingLib(w, target_lib) ==
    IF w.current_data_lib = target_lib
    THEN [w EXCEPT !.last = Handled("perform_conversion", FALSE)]
    ELSE LET df == IF target_lib = "pandas"
                   THEN polars_to_pandas(w.current_data)
                   ELSE pandas_to_polars(w.current_data)
         IN  IF df.exc # "none"
             THEN [w EXCEPT !.last = Handled("perform_conversion", TRUE)]
             ELSE LET view == set_data(df.ret, target_lib)
                  IN  [w EXCEPT
                          !.current_data = df.ret,
                          !.model = IF view.exc = "none" THEN view.ret ELSE @,
                          !.last = Handled("perform_conversion",
                                           view.exc # "none")]

\* MainWindow.perform_conversion(target_lib)
perform_conversion(w, target_lib) ==
    IF w.current_data_lib = target_lib
    THEN [w EXCEPT !.last = Handled("perform_conversion", FALSE)]
    ELSE LET df == IF target_lib = "pandas"
                   THEN polars_to_pandas(w.current_data)
                   ELSE pandas_to_polars(w.current_data)
         IN  IF df.exc # "none"
             THEN [w EXCEPT !.last = Handled("perform_conversion", TRUE)]
             ELSE LET view == set_data(df.ret, target_lib)
                  IN  [w EXCEPT
                          !.current_data = df.ret,
                          !.current_data_lib = target_lib,
                          !.model = IF view.exc = "none" THEN view.ret ELSE @,
                          !.last = Handled("perform_conversion",
                                           view.exc # "none")]

\* The column types in the order the initial states are listed.
TypeList == <<"bool", "int", "float", "text", "date", "datetime">>

\* The datasets of 1..MaxRows rows and two columns: the first of type t with
\* its cells drawn from Dom(t), the second the row's number (1, 2, ...), so
\* that no two rows of a dataset are alike.
Datasets(t) ==
    UNION {{[i \in 1..n |-> <<f[i], IntCell(i)>>] : f \in [1..n -> Dom(t)]} :
              n \in 1..MaxRows}

TwoColumns(t) == <<Column("c0", t), Column("c1", "int")>>

\* The column of the range example: the values 3, 5, 7, 10, 12.
RangeExampleRows ==
    <<<<IntCell(3)>>, <<IntCell(5)>>, <<IntCell(7)>>, <<IntCell(10)>>,
      <<IntCell(12)>>>>

\* The column of the text example: North, South, East, West.
DirectionRows ==
    <<<<TextCell(<<"N", "o", "r", "t", "h">>)>>,
      <<TextCell(<<"S", "o", "u", "t", "h">>)>>,
      <<TextCell(<<"E", "a", "s", "t">>)>>,
      <<TextCell(<<"W", "e", "s", "t">>)>>>>

\* The column of the bool example: the texts True, False, 1, 0.
TokenRows ==
    <<<<TextCell(StrTrue)>>, <<TextCell(StrFalse)>>, <<TextCell(<<"1">>)>>,
      <<TextCell(<<"0">>)>>>>

\* A column of further words: YES, no, the Cyrillic "DA" in capitals and
\* "net", and abc.
WordRows ==
    <<<<TextCell(<<"Y", "E", "S">>)>>, <<TextCell(<<"n", "o">>)>>,
      <<TextCell(<<"U+0414", "U+0410">>)>>,
      <<TextCell(<<"U+043D", "U+0435", "U+0442">>)>>,
      <<TextCell(<<"a", "b", "c">>)>>>>

\* A column of texts that write dates: 15.01.2024, 2024-01-15, 31.12.2023,
\* 2024-02-30 (no such day), 2024-01-16 00:00:00 and 01/15/2024.
DateTextRows ==
    <<<<TextCell(<<"1", "5", ".", "0", "1", ".", "2", "0", "2", "4">>)>>,
      <<TextCell(<<"2", "0", "2", "4", "-", "0", "1", "-", "1", "5">>)>>,
      <<TextCell(<<"3", "1", ".", "1", "2", ".", "2", "0", "2", "3">>)>>,
      <<TextCell(<<"2", "0", "2", "4", "-", "0", "2", "-", "3", "0">>)>>,
      <<TextCell(<<"2", "0", "2", "4", "-", "0", "1", "-", "1", "6", " ",
                   "0", "0", ":", "0", "0", ":", "0", "0">>)>>,
      <<TextCell(<<"0", "1", "/", "1", "5", "/", "2", "0", "2", "4">>)>>>>

\* The rows, with their cells, of the frame of the model in use, in its
\* order.
SourceFrame ==
    LET data == IF lib = "pandas" THEN pdData ELSE plData
    IN  [i \in 1..Len(data) |-> rows[data[i]]]

\* What get_dataframe hands out: a frame object with its rows; shared tells
\* whether it is the object the model holds as _data.
Frame(shared, frame) ==
    [taken |-> TRUE, shared |-> shared, frame |-> frame, edited |-> FALSE,
     sorted |-> FALSE]

\* A constructor keeping the caller's frame object as _data.
PandasTableModelInitSameObject == Frame(TRUE, SourceFrame)

\* PandasTableModel.__init__(data): self._data = data.copy().  The caller
\* keeps data, a frame object with the rows of _data that is not _data.
PandasTableModelInit == Frame(FALSE, SourceFrame)

\* PolarsTableModel.__init__(data): self._data = data.clone()
PolarsTableModelInit == Frame(FALSE, SourceFrame)

\* Both table models constructed from the same dataset (the frame is copied
\* in its order), no proxy attached.
InitEquiv ==
    /\ \E i \in 1..Len(TypeList) :
          /\ columns = TwoColumns(TypeList[i])
          /\ rows \in Datasets(TypeList[i])
    /\ pdData = Ident(Len(rows))
    /\ plData = Ident(Len(rows))
    /\ lib = "both"
    /\ filters = <<>>
    /\ visible = <<>>
    /\ call = [L \in Libs |-> NoCall]
    /\ obs = NoObs
    /\ hist = NoHist
    /\ snap = NoSnap
    /\ app = NoApp

\* One table model, of either backend, behind the proxy (DataViewWidget
\* .set_data); the proxy starts with no filters.
InitSort ==
    /\ lib \in Libs
    /\ \E t \in Types \cup (IF lib = "pandas" THEN {"mixed"} ELSE {}) :
          /\ columns = TwoColumns(t)
          /\ rows \in Datasets(t)
    /\ pdData = Ident(Len(rows))
    /\ plData = Ident(Len(rows))
    /\ filters = <<>>
    /\ visible = [i \in 1..Len(rows) |-> i - 1]
    /\ call = [L \in Libs |-> NoCall]
    /\ obs = NoObs
    /\ hist = NoHist
    /\ snap = NoSnap
    /\ app = NoApp

InitFilter ==
    /\ lib \in Libs
    /\ \/ \E t \in Types :
             /\ columns = TwoColumns(t)
             /\ rows \in Datasets(t)
       \/ /\ columns = <<Column("c0", "int")>>
          /\ rows = RangeExampleRows
    /\ pdData = Ident(Len(rows))
    /\ plData = Ident(Len(rows))
    /\ filters = <<>>
    /\ visible = [i \in 1..Len(rows) |-> i - 1]
    /\ call = [L \in Libs |-> NoCall]
    /\ obs = NoObs
    /\ hist = NoHist
    /\ snap = NoSnap
    /\ app = NoApp

\* One table model behind the proxy, holding a column of texts or a typed
\* column of booleans, dates or date-times.
InitPred ==
    /\ lib \in Libs
    /\ \/ /\ columns = <<Column("c0", "text")>>
          /\ rows \in {DirectionRows, TokenRows, WordRows, DateTextRows}
       \/ /\ columns = <<Column("c0", "int")>>
          /\ rows = RangeExampleRows
       \/ \E t \in {"bool", "date", "datetime"} :
             /\ columns = TwoColumns(t)
             /\ rows \in Datasets(t)
    /\ pdData = Ident(Len(rows))
    /\ plData = Ident(Len(rows))
    /\ filters = <<>>
    /\ visible = [i \in 1..Len(rows) |-> i - 1]
    /\ call = [L \in Libs |-> NoCall]
    /\ obs = NoObs
    /\ hist = NoHist
    /\ snap = NoSnap
    /\ app = NoApp

\* The view showing a dataset of an integer, float or text column and the
\* row numbers, with no filters.
InitView ==
    /\ lib \in Libs
    /\ \E t \in {"int", "float", "text"} :
          /\ columns = TwoColumns(t)
          /\ rows \in Datasets(t)
    /\ pdData = Ident(Len(rows))
    /\ plData = Ident(Len(rows))
    /\ filters = <<>>
    /\ visible = [i \in 1..Len(rows) |-> i - 1]
    /\ call = [L \in Libs |-> NoCall]
    /\ obs = NoObs
    /\ hist = NoHist
    /\ snap = NoSnap
    /\ app = NoApp

\* One table model, of either backend, over a dataset of an integer or text
\* column (or, in pandas, a column of both) and the row numbers.
InitSnapshot ==
    /\ lib \in Libs
    /\ \E t \in {"int", "text"} \cup (IF lib = "pandas" THEN {"mixed"} ELSE {}) :
          /\ columns = TwoColumns(t)
          /\ rows \in Datasets(t)
    /\ pdData = Ident(Len(rows))
    /\ plData = Ident(Len(rows))
    /\ filters = <<>>
    /\ visible = [i \in 1..Len(rows) |-> i - 1]
    /\ call = [L \in Libs |-> NoCall]
    /\ obs = NoObs
    /\ hist = NoHist
    /\ snap = NoSnap
    /\ app = NoApp

\* The view showing a dataset of an integer column and the row numbers,
\* with no filters.
InitReload ==
    /\ lib \in Libs
    /\ columns = TwoColumns("int")
    /\ rows \in Datasets("int")
    /\ pdData = Ident(Len(rows))
    /\ plData = Ident(Len(rows))
    /\ filters = <<>>
    /\ visible = [i \in 1..Len(rows) |-> i - 1]
    /\ call = [L \in Libs |-> NoCall]
    /\ obs = NoObs
    /\ hist = NoHist
    /\ snap = NoSnap
    /\ app = NoApp

\* A table model, of either backend, just constructed from a dataset its
\* caller keeps: an integer or text column (or, in pandas, a column of both)
\* and the row numbers.
InitConstruct ==
    /\ lib \in Libs
    /\ \E t \in {"int", "text"} \cup (IF lib = "pandas" THEN {"mixed"} ELSE {}) :
          /\ columns = TwoColumns(t)
          /\ rows \in Datasets(t)
    /\ pdData = Ident(Len(rows))
    /\ plData = Ident(Len(rows))
    /\ filters = <<>>
    /\ visible = [i \in 1..Len(rows) |-> i - 1]
    /\ call = [L \in Libs |-> NoCall]
    /\ obs = NoObs
    /\ hist = NoHist
    /\ snap = IF lib = "pandas" THEN PandasTableModelInit
              ELSE PolarsTableModelInit
    /\ app = NoApp

\* Both table models constructed from the same dataset: two columns with
\* str labels, or two integer columns with the int labels 1 and 2.
InitAccess ==
    /\ \/ \E t \in {"int", "text", "datetime"} :
             /\ columns = TwoColumns(t)
             /\ rows \in Datasets(t)
       \/ /\ columns = <<IntColumn(1, "int"), IntColumn(2, "int")>>
          /\ rows \in Datasets("int")
    /\ pdData = Ident(Len(rows))
    /\ plData = Ident(Len(rows))
    /\ lib = "both"
    /\ filters = <<>>
    /\ visible = <<>>
    /\ call = [L \in Libs |-> NoCall]
    /\ obs = NoObs
    /\ hist = NoHist
    /\ snap = NoSnap
    /\ app = NoApp

\* The view showing a dataset of a column of any type and the row numbers,
\* with no filters.
InitDialog ==
    /\ lib \in Libs
    /\ \E t \in Types :
          /\ columns = TwoColumns(t)
          /\ rows \in Datasets(t)
    /\ pdData = Ident(Len(rows))
    /\ plData = Ident(Len(rows))
    /\ filters = <<>>
    /\ visible = [i \in 1..Len(rows) |-> i - 1]
    /\ call = [L \in Libs |-> NoCall]
    /\ obs = NoObs
    /\ hist = NoHist
    /\ snap = NoSnap
    /\ app = NoApp

\* The main window just constructed; no dataset is shown.
InitApp ==
    /\ columns = <<>>
    /\ rows = <<>>
    /\ pdData = <<>>
    /\ plData = <<>>
    /\ lib = "pandas"
    /\ filters = <<>>
    /\ visible = <<>>
    /\ call = [L \in Libs |-> NoCall]
    /\ obs = NoObs
    /\ hist = NoHist
    /\ snap = NoSnap
    /\ app = NewApp

(***************************************************************************)
(* The operations.                                                         *)
(***************************************************************************)
SortCall(column, order, before, out) ==
    [fn |-> "sort", column |-> column, order |-> order, before |-> before,
     signals |-> out.signals, raised |-> out.raised]

\* The proxy maps the source rows again when the source model emits
\* layoutChanged.
Refiltered(out) ==
    IF out.raised = "none" THEN visible' = AcceptedRows(filters, 0)'
    ELSE UNCHANGED visible

\* A call of PandasTableModel.sort(column, order).
DoPandasSort(column, order) ==
    \E out \in PandasSort(column, order) :
        /\ pdData' = out.data
        /\ call' = [call EXCEPT !["pandas"] =
                        SortCall(column, order, pdData, out)]
        /\ UNCHANGED <<columns, rows, plData, lib, filters, obs>>
        /\ IF lib = "pandas" THEN Refiltered(out) ELSE UNCHANGED visible

\* A call of PolarsTableModel.sort(column, order).
DoPolarsSort(column, order) ==
    \E out \in PolarsSort(column, order) :
        /\ plData' = out.data
        /\ call' = [call EXCEPT !["polars"] =
                        SortCall(column, order, plData, out)]
        /\ UNCHANGED <<columns, rows, pdData, lib, filters, obs>>
        /\ IF lib = "polars" THEN Refiltered(out) ELSE UNCHANGED visible

Orders == {Asc, Desc}

\* The column arguments tried: every column, counted from either end, and
\* one index past each end.
SortColumns == (-(ColumnCount + 1))..ColumnCount

\* sort() on the model behind the proxy.
SortModel ==
    /\ \E column \in SortColumns, order \in Orders :
          IF lib = "pandas" THEN DoPandasSort(column, order)
          ELSE DoPolarsSort(column, order)
    /\ UNCHANGED <<hist, snap, app>>

\* The same sort() on the freshly constructed pandas model ...
SortPandasCopy ==
    /\ call["pandas"].fn = "none"
    /\ \E column \in 0..(ColumnCount - 1), order \in Orders :
          DoPandasSort(column, order)
    /\ UNCHANGED <<hist, snap, app>>

\* ... and on the freshly constructed polars model.
SortPolarsCopy ==
    /\ call["polars"].fn = "none"
    /\ \E column \in 0..(ColumnCount - 1), order \in Orders :
          DoPolarsSort(column, order)
    /\ UNCHANGED <<hist, snap, app>>

\* data(index, DisplayRole) of the same cell of both models.
ReadData ==
    \E row \in 0..(Len(rows) - 1), c \in 0..(ColumnCount - 1) :
        /\ obs' = [op |-> "data", row |-> row, col |-> c,
                   aligned |-> (pdData = plData),
                   pd |-> PandasData(row, c), pl |-> PolarsData(row, c)]
        /\ UNCHANGED <<columns, rows, pdData, plData, lib, filters, visible,
                       call, hist, snap, app>>

\* get_column_dtype(column) of the same column of both models.
ReadDtype ==
    \E c \in 0..(ColumnCount - 1) :
        /\ obs' = [op |-> "dtype", row |-> 0, col |-> c,
                   aligned |-> (pdData = plData),
                   pd |-> PandasGetColumnDtype(c),
                   pl |-> PolarsGetColumnDtype(c)]
        /\ UNCHANGED <<columns, rows, pdData, plData, lib, filters, visible,
                       call, hist, snap, app>>

\* The indexes a caller may hold: the invalid index, and indexes made for a
\* table of up to MaxRows + 1 rows and one column more than this one has
\* (the table the view showed before).
Indexes ==
    {QModelIndex(row, col) :
        row \in (-1)..MaxRows, col \in (-1)..ColumnCount}

\* data(index, DisplayRole) of both models with an index the caller holds.
DataAt ==
    \E index \in Indexes :
        /\ obs' = [op |-> "data_at", row |-> index.row, col |-> index.col,
                   aligned |-> (pdData = plData),
                   pd |-> PandasDataAt(index), pl |-> PolarsDataAt(index)]
        /\ UNCHANGED <<columns, rows, pdData, plData, lib, filters, visible,
                       call, hist, snap, app>>

\* get_column_dtype(column) of both models for a column of the table.
DtypeAt ==
    \E c \in 0..(ColumnCount - 1) :
        /\ obs' = [op |-> "dtype_at", row |-> 0, col |-> c,
                   aligned |-> (pdData = plData),
                   pd |-> PandasGetColumnDtypeCall(c),
                   pl |-> PolarsGetColumnDtypeCall(c)]
        /\ UNCHANGED <<columns, rows, pdData, plData, lib, filters, visible,
                       call, hist, snap, app>>

\* The filter specifications tried: dicts of up to two items whose keys are
\* the two column names and a name no column has.
RangeFilters ==
    {RangeFilter(min, max) :
        min \in {Absent, Float(5000)},
        max \in {Absent, Float(10000), Float(2000000)}}

FilterItems ==
    ({"c0"} \X RangeFilters)
    \cup ({"c1", "zz"} \X {RangeFilter(Float(2000), Absent)})

FilterSpecs ==
    {<<>>} \cup {<<e>> : e \in FilterItems}
    \cup {p \in FilterItems \X FilterItems : p[1][1] # p[2][1]}

\* set_filters examining only as many source rows as the proxy shows.
set_filtersOfShownRows(fs) ==
    /\ filters' = fs
    /\ visible' = SelectSeq(AcceptedRows(fs, 0), LAMBDA r : r < Len(visible))
    /\ UNCHANGED <<columns, rows, pdData, plData, lib, call, obs>>

\* set_filters updating the dict it has (dict.update) instead of replacing
\* it.
set_filtersUpdating(fs) ==
    /\ filters' =
          SelectSeq(filters,
                    LAMBDA e : \A k \in 1..Len(fs) : fs[k][1] # e[1]) \o fs
    /\ visible' = AcceptedRows(filters', 0)
    /\ UNCHANGED <<columns, rows, pdData, plData, lib, call, obs>>

\* SortFilterProxyModel.set_filters(filters): the dict replaces _filters and
\* invalidateFilter() maps the source rows again.
set_filters(fs) ==
    /\ filters' = fs
    /\ visible' = AcceptedRows(fs, 0)
    /\ UNCHANGED <<columns, rows, pdData, plData, lib, call, obs>>

SetFilters ==
    /\ \E fs \in FilterSpecs : set_filters(fs)
    /\ UNCHANGED <<hist, snap, app>>

\* The descriptors tried on the first column: well-formed ones of the four
\* kinds, ones with a key missing or holding a value of another class, and
\* one of an unknown kind.
TextFilters ==
    {TextFilter(v) :
        v \in {Absent, Str(<<>>), Str(<<"n", "o">>), Str(<<"N", "O">>),
               Str(<<"s", "t">>), PyNone, PyInt(5)}}

DateFilters ==
    {DateFilter(from, to) :
        from \in {Absent, Date(20231231), Date(20240115)},
        to \in {Absent, Date(20240115), Date(20240116)}}

BoolFilters ==
    {BoolFilter(v) : v \in {Absent, PyNone, Bool(TRUE), Bool(FALSE), PyInt(1)}}

NullBoundFilters ==
    {RangeFilter(Float(5000), Float(10000)), RangeFilter(PyNone, Float(10000)),
     RangeFilter(Float(5000), PyNone), RangeFilter(PyNone, PyNone)}

OtherFilter == [type |-> "other"]

\* A descriptor without the key 'type': filter_data.get('type') is None.
NoTypeFilter == [type |-> "None"]

PredicateSpecs ==
    {<<<<"c0", d>>>> :
        d \in TextFilters \cup DateFilters \cup BoolFilters
              \cup NullBoundFilters \cup {OtherFilter}}

\* set_filters with a specification of one predicate on the first column.
SetPredicate ==
    /\ \E fs \in PredicateSpecs : set_filters(fs)
    /\ UNCHANGED <<hist, snap, app>>

\* The specifications the filter dialog is closed with in the view.
ViewSpecs ==
    {<<>>,
     <<<<"c0", RangeFilter(Float(5000), Float(10000))>>>>,
     <<<<"c0", RangeFilter(Float(5000), Absent)>>>>,
     <<<<"c1", RangeFilter(Float(2000), Absent)>>>>,
     <<<<"c0", RangeFilter(Float(5000), Float(10000))>>,
       <<"c1", RangeFilter(Float(2000), Absent)>>>>,
     <<<<"zz", RangeFilter(Float(2000), Absent)>>>>,
     <<<<"c0", OtherFilter>>>>,
     <<<<"c0", OtherFilter>>, <<"c1", RangeFilter(Float(2000), Absent)>>>>,
     <<<<"c0", NoTypeFilter>>>>}

\* DataViewWidget.apply_filters(filters)
ApplyFilters ==
    \E fs \in ViewSpecs :
        /\ set_filters(fs)
        /\ hist' = Hist("apply_filters", fs)
        /\ UNCHANGED <<snap, app>>

\* get_column_dtype(col) of the source model.
SourceGetColumnDtype(c) ==
    IF lib = "pandas" THEN PandasGetColumnDtype(c)
    ELSE PolarsGetColumnDtype(c)

\* The widgets of the filter dialog, with the values they hold: the two
\* spin boxes of a number column, the line edit of a text column, the two
\* date edits of a date-time column, the combo box of a boolean column.
RangeWidget(min, max) == [type |-> "range", min |-> min, max |-> max]
TextWidget(text) == [type |-> "text", text |-> text]
DateWidget(from, to) == [type |-> "date", from |-> from, to |-> to]
BoolWidget(data) == [type |-> "bool", data |-> data]
NoWidget == [type |-> "none"]

\* QDate.currentDate(): the days the dialog is opened on.
Todays == {20240116, 20250601}

\* QDate.addYears(-1) of a day that is not the 29th of February.
AYearBefore(day) == day - 10000

\* FilterDialog.init_ui: the widget made for a column, with the value it is
\* given.
InitWidget(c, today) ==
    LET kind == FilterKind(SourceGetColumnDtype(c))
    IN  CASE kind = "range" -> RangeWidget(Float1e9(-1), Float1e9(1))
          [] kind = "text" -> TextWidget(<<>>)
          [] kind = "date" ->
                DateWidget(Date(AYearBefore(today)), Date(today))
          [] kind = "bool" -> BoolWidget(PyNone)
          [] OTHER -> NoWidget

\* The values the user can leave in a widget: the one it was made with, and
\* some others.
WidgetValues(c, today) ==
    LET w == InitWidget(c, today)
    IN  {w} \cup
        CASE w.type = "range" ->
                {RangeWidget(Float(5000), Float1e9(1)),
                 RangeWidget(Float1e9(-1), Float(10000))}
          [] w.type = "text" ->
                {TextWidget(<<" ">>), TextWidget(<<" ", "b", " ">>)}
          [] w.type = "date" ->
                {DateWidget(Date(20240101), Date(20240131))}
          [] w.type = "bool" -> {BoolWidget(Bool(TRUE))}
          [] OTHER -> {}

\* filter_data = {}
EmptyFilterData == [type |-> "empty"]

\* The body of the loop of get_filters: the descriptor made of a widget's
\* values.
FilterDataOf(w) ==
    CASE w.type = "range" ->
            IF \/ ~FloatLe(GetBound(w.min, NegInf), Num1e9(-1))
               \/ ~FloatLe(Num1e9(1), GetBound(w.max, PosInf))
            THEN RangeFilter(w.min, w.max)
            ELSE EmptyFilterData
      [] w.type = "text" ->
            LET text == RStrip(LStrip(w.text))
            IN  IF text # <<>> THEN TextFilter(Str(text))
                ELSE EmptyFilterData
      [] w.type = "date" -> DateFilter(w.from, w.to)
      [] w.type = "bool" ->
            IF w.data # PyNone THEN BoolFilter(w.data) ELSE EmptyFilterData
      [] OTHER -> EmptyFilterData

RECURSIVE FiltersFrom(_, _)
\* FilterDialog.get_filters(): the dict of the descriptors that are not
\* empty, keyed by column name, from the c-th widget on.
FiltersFrom(widgets, c) ==
    IF c >= Len(widgets) THEN <<>>
    ELSE LET filter_data == FilterDataOf(widgets[c + 1])
         IN  (IF filter_data # EmptyFilterData /\ widgets[c + 1] # NoWidget
              THEN <<<<HeaderData(c), filter_data>>>> ELSE <<>>)
             \o FiltersFrom(widgets, c + 1)

get_filters(widgets) == FiltersFrom(widgets, 0)

\* DataViewWidget.open_filter_dialog(): the dialog is made for the columns
\* of the source model, the user leaves a value in each widget and accepts,
\* and the filters read from the widgets are applied.
OpenFilterDialog ==
    \E today \in Todays :
        \E widgets \in
              {w \in [1..ColumnCount ->
                         UNION {WidgetValues(c, today) :
                                   c \in 0..(ColumnCount - 1)}] :
                  \A c \in 0..(ColumnCount - 1) :
                      w[c + 1] \in WidgetValues(c, today)} :
            /\ set_filters(get_filters(widgets))
            /\ hist' = [op |-> "filter_dialog",
                        arg |-> get_filters(widgets),
                        filters |-> filters, visible |-> visible,
                        widgets |-> widgets,
                        made |-> [c \in 1..ColumnCount |->
                                     InitWidget(c - 1, today)]]
            /\ UNCHANGED <<snap, app>>

\* clear_filter that leaves the proxy as it is.
ClearFilterLabelOnly ==
    /\ hist' = Hist("clear_filter", <<>>)
    /\ UNCHANGED <<columns, rows, pdData, plData, lib, filters, visible,
                   call, obs, snap, app>>

\* DataViewWidget.clear_filter()
ClearFilter ==
    /\ set_filters(<<>>)
    /\ hist' = Hist("clear_filter", <<>>)
    /\ UNCHANGED <<snap, app>>

\* DataViewWidget.set_data(df, data_lib), as MainWindow.on_data_loaded calls
\* it when the data is loaded again (the same file, or the test data, which
\* are generated from a fixed seed) with the same backend: a table model is
\* constructed over the frame and made the source model of the view's one
\* proxy, which keeps its _filters and maps the rows of the new model with
\* them.  (The rows of the model replaced are in the order they were loaded
\* in, so the new frame's rows are those of the old.)
SetData ==
    /\ pdData = Ident(Len(rows))
    /\ plData = Ident(Len(rows))
    /\ call' = [M \in Libs |-> NoCall]
    /\ visible' = AcceptedRows(filters, 0)
    /\ hist' = [op |-> "set_data", arg |-> filters, filters |-> filters,
                visible |-> visible]
    /\ UNCHANGED <<columns, rows, pdData, plData, lib, filters, obs, snap,
                   app>>

\* get_dataframe returning self._data itself.
PandasGetDataframeSameObject == Frame(TRUE, SourceFrame)

\* PandasTableModel.get_dataframe(): self._data.copy()
PandasGetDataframe == Frame(FALSE, SourceFrame)

\* PolarsTableModel.get_dataframe(): self._data.clone()
PolarsGetDataframe == Frame(FALSE, SourceFrame)

\* A caller takes the frame of the model in use.
GetDataframe ==
    /\ snap' = IF lib = "pandas" THEN PandasGetDataframe
               ELSE PolarsGetDataframe
    /\ UNCHANGED <<columns, rows, pdData, plData, lib, filters, visible,
                   call, obs, hist, app>>

\* sort() on the model after a frame was handed out.  A sort that succeeds
\* binds _data to the new frame sort_values (sort) returns, so that the
\* frame handed out is no longer the model's, whatever it was before.
SortAfterSnapshot ==
    /\ snap.taken
    /\ \E column \in 0..(ColumnCount - 1), order \in Orders :
          /\ IF lib = "pandas" THEN DoPandasSort(column, order)
             ELSE DoPolarsSort(column, order)
          /\ snap' = [snap EXCEPT
                         !.sorted = TRUE,
                         !.shared = /\ snap.shared
                                    /\ lib = "pandas"
                                    /\ PdIncomparable(column)]
    /\ UNCHANGED <<hist, app>>

\* The row order of the model in use after its first row is removed.
DroppedFirst(data) == Tail(data)

\* A frame without its last column.
DroppedLastColumn(frame) ==
    [i \in 1..Len(frame) |-> SubSeq(frame[i], 1, Len(frame[i]) - 1)]

\* The caller changes the frame it holds in place: it drops the first row,
\* overwrites the second cell of the first row with 0, or drops the last
\* column.  A frame that is the model's own _data changes for the model too.
MutateSnapshot ==
    /\ snap.taken /\ ~snap.edited /\ Len(snap.frame) >= 1
    /\ \E kind \in {"drop", "set", "drop_column"} :
          /\ snap' = [snap EXCEPT
                         !.edited = TRUE,
                         !.frame =
                            CASE kind = "drop" -> Tail(snap.frame)
                              [] kind = "set" ->
                                    [snap.frame EXCEPT ![1][2] = IntCell(0)]
                              [] OTHER -> DroppedLastColumn(snap.frame)]
          /\ IF snap.shared
             THEN CASE kind = "drop" ->
                          /\ pdData' = IF lib = "pandas"
                                       THEN DroppedFirst(pdData) ELSE pdData
                          /\ plData' = IF lib = "polars"
                                       THEN DroppedFirst(plData) ELSE plData
                          /\ UNCHANGED <<rows, columns>>
                    [] kind = "set" ->
                          /\ rows' = [rows EXCEPT
                                        ![IF lib = "pandas" THEN pdData[1]
                                          ELSE plData[1]][2] = IntCell(0)]
                          /\ UNCHANGED <<pdData, plData, columns>>
                    [] OTHER ->
                          /\ columns' = SubSeq(columns, 1, Len(columns) - 1)
                          /\ rows' = DroppedLastColumn(rows)
                          /\ UNCHANGED <<pdData, plData>>
             ELSE UNCHANGED <<rows, pdData, plData, columns>>
    /\ UNCHANGED <<lib, filters, visible, call, obs, hist, app>>

NotApp ==
    <<columns, rows, pdData, plData, lib, filters, visible, call, obs, hist,
      snap>>

\* A DataLoaderThread is constructed with any file path and data_lib and
\* started.
StartThread ==
    /\ Len(app.threads) < MaxThreads
    /\ \E file \in {File(ext, holds) : ext \in Extensions, holds \in Holds}
                   \cup {NoFile},
          data_lib \in Libs :
          app' = [app EXCEPT
                     !.threads = Append(@, DataLoaderThread(file, data_lib))]
    /\ UNCHANGED NotApp

\* The files the user picks in the main window.
Picked == {File(ext, holds) : ext \in {".csv", ".xlsx"}, holds \in Holds}

\* MainWindow.load_data(): a loader thread is started for the file picked,
\* with the default data_lib.
LoadData ==
    /\ Len(app.threads) < MaxThreads
    /\ \E file \in Picked :
          app' = [app EXCEPT
                     !.threads = Append(@, DataLoaderThread(file, "pandas"))]
    /\ UNCHANGED NotApp

\* MainWindow.generate_test_data(): a loader thread is started for test data
\* of the backend chosen in the dialog.
GenerateTestData ==
    /\ Len(app.threads) < MaxThreads
    /\ \E data_lib \in Libs :
          app' = [app EXCEPT
                     !.threads = Append(@, DataLoaderThread(NoFile, data_lib))]
    /\ UNCHANGED NotApp

\* A started thread runs: its signals are emitted and those connected to a
\* slot of the main window that changes its data are queued for the main
\* thread.
Run ==
    /\ \E i \in 1..Len(app.threads) :
          /\ app.threads[i].pc = "started"
          /\ LET emitted == run(app.threads[i].file, app.threads[i].data_lib)
             IN  app' = [app EXCEPT
                            !.threads[i].pc = "finished",
                            !.threads[i].emitted = emitted,
                            !.events =
                               @ \o SelectSeq(emitted,
                                      LAMBDA e : e.sig # "progress_updated")]
    /\ UNCHANGED NotApp

\* The main thread delivers data_loaded.
OnDataLoaded ==
    /\ app.events # <<>>
    /\ Head(app.events).sig = "data_loaded"
    /\ app' = [on_data_loaded(app, Head(app.events))
                  EXCEPT !.events = Tail(app.events)]
    /\ UNCHANGED NotApp

\* The main thread delivers error_occurred.
OnLoadError ==
    /\ app.events # <<>>
    /\ Head(app.events).sig = "error_occurred"
    /\ app' = [on_load_error(app) EXCEPT !.events = Tail(app.events)]
    /\ UNCHANGED NotApp

\* MainWindow.convert_data_lib(target_lib): with data loaded, the conversion
\* is put on a timer.
ConvertDataLib ==
    /\ app.current_data # NoFrame
    /\ Len(app.timers) < MaxTimers
    /\ \E target_lib \in Libs :
          app' = [app EXCEPT !.timers = Append(@, target_lib)]
    /\ UNCHANGED NotApp

\* The timer of the oldest conversion fires.
PerformConversion ==
    /\ app.timers # <<>>
    /\ app' = [perform_conversion(app, Head(app.timers))
                  EXCEPT !.timers = Tail(app.timers)]
    /\ UNCHANGED NotApp

NextEquiv == ReadData \/ ReadDtype \/ SortPandasCopy \/ SortPolarsCopy

NextSort == SortModel

NextFilter == SetFilters

SpecEquiv == InitEquiv /\ [][NextEquiv]_vars

SpecSort == InitSort /\ [][NextSort]_vars

SpecFilter == InitFilter /\ [][NextFilter]_vars

NextView == ApplyFilters \/ ClearFilter

SpecView == InitView /\ [][NextView]_vars

NextReload == ApplyFilters \/ SetData

SpecReload == InitReload /\ [][NextReload]_vars

NextSnapshot == GetDataframe \/ SortAfterSnapshot \/ MutateSnapshot

SpecSnapshot == InitSnapshot /\ [][NextSnapshot]_vars

NextPred == SetPredicate

SpecPred == InitPred /\ [][NextPred]_vars

NextConstruct == MutateSnapshot \/ SortAfterSnapshot

SpecConstruct == InitConstruct /\ [][NextConstruct]_vars

NextAccess == DataAt \/ DtypeAt

SpecAccess == InitAccess /\ [][NextAccess]_vars

NextDialog == OpenFilterDialog

SpecDialog == InitDialog /\ [][NextDialog]_vars

NextLoader == StartThread \/ Run

SpecLoader == InitApp /\ [][NextLoader]_vars

NextApp ==
    \/ LoadData
    \/ GenerateTestData
    \/ Run
    \/ OnDataLoaded
    \/ OnLoadError
    \/ ConvertDataLib
    \/ PerformConversion

SpecApp == InitApp /\ [][NextApp]_vars

Spec == SpecFilter

(***************************************************************************)
(* Properties.                                                             *)
(***************************************************************************)
InSeq(x, q) == \E i \in 1..Len(q) : q[i] = x

SourceRows == 0..(SourceRowCount - 1)

Shown(row) == InSeq(row, visible)

\* The predicates of the active specification whose column name is the
\* label of a column of the source model.
Resolved == {k \in 1..Len(filters) : ColIndex(filters[k][1]) # -1}

Passes(row, k) ==
    apply_filter(SourceData(row, ColIndex(filters[k][1])), filters[k][2])
        = Return(TRUE)

\* C1: a source row is accepted by the proxy if and only if apply_filter
\* returns true for every predicate of the specification whose column name
\* resolves to a column of the source model (logical AND).
C1_AcceptsIffEveryPredicate ==
    \A row \in SourceRows :
        Shown(row) <=> \A k \in Resolved : Passes(row, k)

\* Two predicates on two columns of the model: one row passes the first and
\* fails the second and is hidden, another row passes both and is shown.
C1_Witness ==
    /\ Len(filters) = 2
    /\ Resolved = {1, 2}
    /\ \E row \in SourceRows :
          Passes(row, 1) /\ ~Passes(row, 2) /\ ~Shown(row)
    /\ \E row \in SourceRows : Passes(row, 1) /\ Passes(row, 2) /\ Shown(row)

\* C2: for equivalent input, PandasTableModel.data and PolarsTableModel.data
\* return the same display string for every cell in range.
C2_SameDisplay ==
    (obs.op = "data" /\ obs.aligned) => obs.pd = obs.pl

\* The five normalized type tags.
TypeTags == {"int64", "float64", "object", "datetime64[ns]", "bool"}

\* C3: get_column_dtype returns one of the five normalized tags, the same
\* for both backends, so that the filter dialog builds the same kind of
\* predicate for the column.
C3_SameTypeTag ==
    obs.op = "dtype" =>
        /\ obs.pd \in TypeTags
        /\ obs.pl \in TypeTags
        /\ obs.pd = obs.pl
        /\ FilterKind(obs.pd) = FilterKind(obs.pl)

\* C4: the same sort(column, order) on the two models built from the same
\* dataset leaves the rows in the same order.
C4_SameSortOrder ==
    (/\ call["pandas"].fn = "sort"
     /\ call["polars"].fn = "sort"
     /\ call["pandas"].column = call["polars"].column
     /\ call["pandas"].order = call["polars"].order)
        => pdData = plData

ModelData(L) == IF L = "pandas" THEN pdData ELSE plData

Pos(q, x) == CHOOSE i \in 1..Len(q) : q[i] = x

\* The rows with equal values in column c stand in q as they stand in p.
TiesKept(p, q, c) ==
    \A x, y \in 1..Len(rows) :
        (x # y /\ rows[x][c + 1] = rows[y][c + 1])
            => (Pos(p, x) < Pos(p, y) <=> Pos(q, x) < Pos(q, y))

\* The present values of column c stand in q in the given direction.
InOrder(q, c, order) ==
    \A i, j \in 1..Len(q) :
        LET a == rows[q[i]][c + 1]
            b == rows[q[j]][c + 1]
        IN  (i < j /\ a.t = b.t /\ a.t \notin {"null", "nan"})
                => IF order = Asc THEN ~Less(b, a) ELSE ~Less(a, b)

\* C5: after sort(column, order) the rows are ordered by the column in the
\* requested direction, and rows with equal values in the column keep the
\* relative order they had before the call.
C5_StableReorder ==
    \A L \in Libs :
        (/\ call[L].fn = "sort"
         /\ PyIndexInRange(call[L].column, ColumnCount))
            => LET c == PyIndex(call[L].column, ColumnCount)
               IN  /\ InOrder(ModelData(L), c, call[L].order)
                   /\ TiesKept(call[L].before, ModelData(L), c)

\* C6: sorting ascending and then descending by the same column leaves the
\* rows with equal values in that column in the relative order they had
\* before the first of the two sorts.
C6_RoundTripKeepsTies ==
    [][\A L \in Libs :
          (/\ call[L].fn = "sort" /\ call[L].order = Asc
           /\ call[L].raised = "none"
           /\ call'[L].fn = "sort" /\ call'[L].order = Desc
           /\ call'[L].raised = "none"
           /\ call'[L].before = ModelData(L)
           /\ PyIndexInRange(call[L].column, ColumnCount)
           /\ PyIndexInRange(call'[L].column, ColumnCount)
           /\ PyIndex(call[L].column, ColumnCount)
                 = PyIndex(call'[L].column, ColumnCount))
              => TiesKept(call[L].before, ModelData(L)',
                          PyIndex(call[L].column, ColumnCount))]_vars

\* C7: every call of sort emits layoutAboutToBeChanged and then the
\* matching layoutChanged, whatever the column index and however the
\* reorder ends.
C7_SignalsPaired ==
    \A L \in Libs :
        call[L].fn = "sort" => call[L].signals = <<AboutToBeChanged, Changed>>

\* C8: no exception leaves sort, and a sort that cannot complete (the
\* column cannot be resolved, or its values cannot be compared) leaves the
\* rows as they were.
C8_FailingSortContained ==
    \A L \in Libs :
        call[L].fn = "sort" =>
            /\ call[L].raised = "none"
            /\ (\/ ~PyIndexInRange(call[L].column, ColumnCount)
                \/ (L = "pandas"
                    /\ PdIncomparable(PyIndex(call[L].column, ColumnCount))))
                  => ModelData(L) = call[L].before

\* The active specification is one range predicate on a column of the
\* model.
OneRangeFilter ==
    /\ Len(filters) = 1
    /\ filters[1][2].type = "range"
    /\ ColIndex(filters[1][1]) # -1

SourceCell(row, c) == rows[ModelData(lib)[row + 1]][c + 1]

\* The number a cell is shown as, in thousandths ("none": it is not shown
\* as a number): an integer as itself, a float rounded to two decimals, a
\* text of digits as the integer it writes.
ShownNumber(cell) ==
    CASE cell.t = "int" -> [some |-> TRUE, n |-> cell.n * 1000]
      [] cell.t = "float" -> [some |-> TRUE, n |-> RoundHundredths(cell.n) * 10]
      [] cell.t = "text" /\ cell.s # <<>> /\ AllDigits(cell.s) ->
            [some |-> TRUE, n |-> NumOf(cell.s) * 1000]
      [] OTHER -> [some |-> FALSE, n |-> 0]

WithinBounds(n, d) ==
    /\ d.min.k = "absent" \/ d.min.n <= n
    /\ d.max.k = "absent" \/ n <= d.max.n

\* C9: a range predicate accepts a cell exactly when the number it is shown
\* as (thousands separators dropped) lies between min and max, both
\* included, a missing bound being no bound; min=5, max=10 over 3, 5, 7, 10,
\* 12 shows 5, 7, 10, and a cell shown as "1,234" is compared as 1234.
C9_RangeInclusive ==
    OneRangeFilter =>
        LET c == ColIndex(filters[1][1])
            d == filters[1][2]
        IN  /\ \A row \in SourceRows :
                  LET n == ShownNumber(SourceCell(row, c))
                  IN  /\ Shown(row) <=> (n.some /\ WithinBounds(n.n, d))
                      /\ (/\ SourceData(row, c) = Str(<<"1", ",", "2", "3", "4">>)
                          /\ WithinBounds(1234000, d))
                            => Shown(row)
            /\ (/\ rows = RangeExampleRows
                /\ d = RangeFilter(Float(5000), Float(10000)))
                  => [i \in 1..Len(visible) |-> SourceCell(visible[i], c)]
                        = <<IntCell(5), IntCell(7), IntCell(10)>>

\* The range example is filtered with min=5, max=10 and shows its second,
\* third and fourth rows.
C9_Witness ==
    /\ OneRangeFilter
    /\ rows = RangeExampleRows
    /\ filters[1][2] = RangeFilter(Float(5000), Float(10000))
    /\ visible = <<1, 2, 3>>

\* A displayed string that is no number: it is empty, or has a character
\* that is neither a digit, a point, a comma nor a leading sign (and is
\* none of the words float() reads).
NotANumber(s) ==
    /\ LowerStr(s) \notin {StrNan, <<"i", "n", "f">>}
    /\ \/ s = <<>>
       \/ \E i \in 1..Len(s) :
             /\ ~IsDigit(s[i]) /\ s[i] \notin {".", ","}
             /\ ~(i = 1 /\ s[i] \in {"-", "+"})

\* C10: under a range predicate a cell whose displayed string does not parse
\* as a number is excluded whatever the bounds, and neither apply_filter nor
\* filterAcceptsRow raises.
C10_UnparsableExcluded ==
    OneRangeFilter =>
        LET c == ColIndex(filters[1][1])
        IN  \A row \in SourceRows :
                /\ filterAcceptsRow(filters, row).exc = "none"
                /\ apply_filter(SourceData(row, c), filters[1][2]).exc = "none"
                /\ NotANumber(StrOf(SourceData(row, c))) => ~Shown(row)

\* A cell shown as "abc" and a null cell shown as "" are both hidden by a
\* range predicate without bounds.
C10_Witness ==
    /\ OneRangeFilter
    /\ filters[1][2] = RangeFilter(Absent, Absent)
    /\ \E r1, r2 \in SourceRows :
          /\ SourceData(r1, ColIndex(filters[1][1])) = Str(<<"a", "b", "c">>)
          /\ SourceData(r2, ColIndex(filters[1][1])) = Str(<<>>)
          /\ ~Shown(r1) /\ ~Shown(r2)

\* The active specification is one predicate of the given kind on a column
\* of the model.
OneFilterOf(type) ==
    /\ Len(filters) = 1
    /\ filters[1][2].type = type
    /\ ColIndex(filters[1][1]) # -1

\* The displayed string of the cell the one predicate looks at.
Displayed(row) == StrOf(SourceData(row, ColIndex(filters[1][1])))

\* C11: a text predicate accepts a cell exactly when the lower-cased search
\* text is a substring of the lower-cased displayed string, an empty or
\* absent search text accepting every cell; "no" over North, South, East,
\* West shows North alone.
C11_TextSubstring ==
    (OneFilterOf("text") /\ filters[1][2].value.k \in {"absent", "str"})
        => LET v == filters[1][2].value
               search == IF v.k = "absent" THEN <<>> ELSE LowerStr(v.s)
           IN  /\ \A row \in SourceRows :
                     Shown(row) <=>
                         \/ search = <<>>
                         \/ Contains(search, LowerStr(Displayed(row)))
               /\ (rows = DirectionRows /\ v = Str(<<"n", "o">>))
                     => visible = <<0>>

\* The text example filtered with "NO" shows its first row, North, alone.
C11_Witness ==
    /\ OneFilterOf("text")
    /\ rows = DirectionRows
    /\ filters[1][2].value = Str(<<"N", "O">>)
    /\ visible = <<0>>

\* The calendar date a cell is shown as (some = FALSE: it is not shown as a
\* date in one of the three formats): a date as itself, a date-time as
\* its day, and of the texts of DateTextRows the first, second, third and
\* fifth as the days they write.
ShownDate(cell) ==
    CASE cell.t \in {"date", "datetime"} -> [some |-> TRUE, d |-> cell.n]
      [] cell = DateTextRows[1][1] -> [some |-> TRUE, d |-> 20240115]
      [] cell = DateTextRows[2][1] -> [some |-> TRUE, d |-> 20240115]
      [] cell = DateTextRows[3][1] -> [some |-> TRUE, d |-> 20231231]
      [] cell = DateTextRows[5][1] -> [some |-> TRUE, d |-> 20240116]
      [] OTHER -> [some |-> FALSE, d |-> 0]

\* C12: a date predicate {from, to} accepts a cell exactly when its
\* displayed string reads, in one of the formats YYYY-MM-DD HH:MM:SS,
\* YYYY-MM-DD, DD.MM.YYYY, as a day d with from <= d <= to, the time of day
\* being discarded; a string of none of the formats is excluded.
C12_DateInclusive ==
    (/\ OneFilterOf("date")
     /\ filters[1][2].from.k = "date"
     /\ filters[1][2].to.k = "date")
        => LET c == ColIndex(filters[1][1])
               from == filters[1][2].from.n
               to == filters[1][2].to.n
           IN  \A row \in SourceRows :
                   LET d == ShownDate(SourceCell(row, c))
                   IN  Shown(row) <=> (d.some /\ from <= d.d /\ d.d <= to)

\* A cell at 23:59:59 of the day `to` is shown, and a null cell of the same
\* column is hidden.
C12_Witness ==
    /\ OneFilterOf("date")
    /\ filters[1][2] = DateFilter(Date(20231231), Date(20240115))
    /\ \E r1, r2 \in SourceRows :
          /\ SourceCell(r1, 0) = DateTimeCell(20240115, 235959)
          /\ Displayed(r2) = <<>>
          /\ Shown(r1) /\ ~Shown(r2)

\* C13: a bool predicate with value True accepts exactly the cells whose
\* lower-cased displayed string is one of the true tokens, with value False
\* exactly those whose string is one of the false tokens, and with any other
\* value every cell; value True over True, False, 1, 0 shows True and 1.
C13_BoolTokens ==
    OneFilterOf("bool") =>
        LET v == filters[1][2].value
        IN  /\ \A row \in SourceRows :
                  Shown(row) <=>
                      CASE v = Bool(TRUE) ->
                              LowerStr(Displayed(row)) \in TrueTokens
                        [] v = Bool(FALSE) ->
                              LowerStr(Displayed(row)) \in FalseTokens
                        [] OTHER -> TRUE
            /\ (rows = TokenRows /\ v = Bool(TRUE)) => visible = <<0, 2>>

\* The bool example under value True shows its first and third rows.
C13_Witness ==
    /\ OneFilterOf("bool")
    /\ rows = TokenRows
    /\ filters[1][2].value = Bool(TRUE)
    /\ visible = <<0, 2>>

\* The exception the branch of the one predicate raises for a row, before
\* any handler ("none": it returns).
BranchRaises(row) ==
    LET value == SourceData(row, ColIndex(filters[1][1]))
        d == filters[1][2]
    IN  CASE d.type = "range" -> RangeTry(value, d).exc
          [] d.type = "text" -> TextBranch(value, d).exc
          [] d.type = "date" -> DateTry(value, d).exc
          [] d.type = "bool" -> BoolBranch(value, d).exc
          [] OTHER -> "none"

\* C14: when evaluating a predicate raises anything but the failure to parse
\* the displayed string (a bound that is None, a missing from or to, a
\* search text that is no string), apply_filter returns true and the row is
\* shown.
C14_FailOpen ==
    (Len(filters) = 1 /\ ColIndex(filters[1][1]) # -1) =>
        \A row \in SourceRows :
            BranchRaises(row) \notin {"none", "ValueError"} => Shown(row)

\* C15: with an empty specification, and in particular after clear_filter
\* whatever was set before, the proxy shows as many rows as the source model
\* has.
C15_EmptyShowsAll ==
    (filters = <<>> \/ hist.op = "clear_filter")
        => /\ Len(visible) = SourceRowCount
           /\ \A row \in SourceRows : Shown(row)

\* clear_filter was called while a specification hid rows, and every row is
\* shown again.
C15_Witness ==
    /\ hist.op = "clear_filter"
    /\ hist.filters # <<>>
    /\ Len(hist.visible) < SourceRowCount
    /\ Len(visible) = SourceRowCount

\* C16: set_filters(S) called when S is already the active specification
\* leaves the visible rows, and their number, as the first call left them.
C16_Idempotent ==
    (hist.op = "apply_filters" /\ hist.arg = hist.filters)
        => visible = hist.visible

\* The same specification was set again while it showed some rows and hid
\* others.
C16_Witness ==
    /\ hist.op = "apply_filters"
    /\ hist.arg = hist.filters
    /\ hist.arg # <<>>
    /\ visible = hist.visible
    /\ 0 < Len(visible) /\ Len(visible) < SourceRowCount

\* The predicates of a specification whose column name is the label of a
\* column.
ResolvedIn(fs) ==
    {k \in 1..Len(fs) : \E c \in 0..(ColumnCount - 1) : HeaderData(c) = fs[k][1]}

PassesOf(fs, row, k) ==
    apply_filter(SourceData(row, ColIndex(fs[k][1])), fs[k][2]) = Return(TRUE)

\* C17: after set_filters(spec) the active specification is spec, and the
\* rows shown are exactly those that pass every predicate of spec: no
\* predicate of the specification it replaced still hides a row.
C17_ReplacesSpec ==
    hist.op \in {"apply_filters", "clear_filter"}
        => /\ filters = hist.arg
           /\ \A row \in SourceRows :
                 Shown(row) <=>
                     \A k \in ResolvedIn(hist.arg) : PassesOf(hist.arg, row, k)

\* A specification on one column replaced one on the other column, and a
\* row the replaced specification hid is shown.
C17_Witness ==
    /\ hist.op = "apply_filters"
    /\ Len(hist.arg) = 1 /\ Len(hist.filters) = 1
    /\ ResolvedIn(hist.arg) = {1} /\ ResolvedIn(hist.filters) = {1}
    /\ hist.arg[1][1] # hist.filters[1][1]
    /\ \E row \in SourceRows :
          /\ ~InSeq(row, hist.visible)
          /\ Shown(row)
    /\ Len(visible) < SourceRowCount

\* The specification without its k-th predicate.
Without(fs, k) == SubSeq(fs, 1, k - 1) \o SubSeq(fs, k + 1, Len(fs))

\* The rows that pass every predicate of fs on a column of the model.
RowsPassing(fs) ==
    {row \in SourceRows : \A k \in ResolvedIn(fs) : PassesOf(fs, row, k)}

\* C18: a predicate whose column name is no header label of the source
\* model is ignored: the rows shown are those shown without it, and
\* filterAcceptsRow raises for no row.
C18_UnknownColumnIgnored ==
    \A k \in 1..Len(filters) :
        k \notin ResolvedIn(filters)
            => /\ visible = AcceptedRows(Without(filters, k), 0)
               /\ \A row \in SourceRows :
                     /\ filterAcceptsRow(filters, row).exc = "none"
                     /\ Shown(row) <=> row \in RowsPassing(Without(filters, k))

\* A specification of a predicate on the first column and one on a column
\* the model does not have: some rows are hidden, those that pass the first
\* predicate are shown.
C18_Witness ==
    /\ Len(filters) = 2
    /\ ResolvedIn(filters) = {1}
    /\ 0 < Len(visible) /\ Len(visible) < SourceRowCount
    /\ \A row \in SourceRows : Shown(row) <=> PassesOf(filters, row, 1)

\* C19: after set_data every row of the new dataset is shown: no predicate
\* of the specification that was active for the previous dataset hides a
\* row of the new one.
C19_SetDataShowsAll ==
    hist.op = "set_data"
        => /\ Len(visible) = SourceRowCount
           /\ \A row \in SourceRows : Shown(row)

\* C20: get_dataframe() returns the rows of the model as they stand (sorted
\* or not); a later sort of the model changes neither the number, the order
\* nor the values of the rows of a frame handed out, and a change the caller
\* makes to that frame changes nothing of what the model's rowCount and
\* data return.
C20_SnapshotIndependent ==
    [][/\ (snap'.taken /\ ~snap'.edited /\ ~snap'.sorted)
             => snap'.frame = SourceFrame
       /\ (snap.taken /\ call' # call) => snap'.frame = snap.frame
       /\ (snap.taken /\ snap'.edited /\ ~snap.edited)
             => /\ SourceFrame' = SourceFrame
                /\ SourceRowCount' = SourceRowCount]_vars

\* A frame was handed out, the model was then sorted into another order and
\* the caller changed the frame: the frame and the model differ.
C20_Witness ==
    /\ snap.taken /\ snap.sorted /\ snap.edited
    /\ call[lib].fn = "sort" /\ call[lib].raised = "none"
    /\ ModelData(lib) # call[lib].before
    /\ snap.frame # SourceFrame

\* C21: each table model copies the dataset it is constructed from: a change
\* its caller later makes to that dataset in place (a row or a column
\* dropped, a cell overwritten) changes neither rowCount, columnCount nor
\* the text data returns for any cell.
C21_DefensiveCopy ==
    [][(snap.taken /\ snap'.edited /\ ~snap.edited)
          => /\ SourceRowCount' = SourceRowCount
             /\ ColumnCount' = ColumnCount
             /\ \A row \in SourceRows, c \in 0..(ColumnCount - 1) :
                   SourceData(row, c)' = SourceData(row, c)]_vars

\* The caller has changed the dataset the model was constructed from, which
\* now differs from the model's rows in the number of its rows or columns or
\* in a cell.
C21_Witness ==
    /\ snap.taken /\ snap.edited /\ ~snap.sorted
    /\ snap.frame # SourceFrame
    /\ SourceRowCount >= 1 /\ ColumnCount = 2

\* The index names a cell of the table.
InRange(index, rowCount) ==
    /\ 0 <= index.row /\ index.row < rowCount
    /\ 0 <= index.col /\ index.col < ColumnCount

\* C22: data never raises: for an index outside the table (negative, or
\* valid for the table shown before) both models return None or "".
C22_DataNeverRaises ==
    obs.op = "data_at"
        => /\ obs.pd.exc = "none" /\ obs.pl.exc = "none"
           /\ ~InRange(QModelIndex(obs.row, obs.col), SourceRowCount)
                 => /\ obs.pd.ret \in {None, Str(<<>>)}
                    /\ obs.pl.ret \in {None, Str(<<>>)}

\* C25: get_column_dtype raises for no column index 0 <= col < columnCount,
\* whatever the column's type or label: both models return a type tag.
C25_DtypeNeverRaises ==
    obs.op = "dtype_at"
        => /\ obs.pd.exc = "none" /\ obs.pl.exc = "none"
           /\ obs.pd.ret # "" /\ obs.pl.ret # ""

\* The cell of the dataset at a position of a model's frame.
CellAt(data, row, c) == rows[data[row + 1]][c + 1]

\* C23: data(index, DisplayRole) returns "" for a null cell of a column of
\* any type, in both models, and returns it for no cell that is not null.
C23_NullIsEmpty ==
    [][(obs' # obs /\ obs'.op = "data")
          => /\ obs'.pd = Str(<<>>)
                   <=> CellAt(pdData, obs'.row, obs'.col) = Null
             /\ obs'.pl = Str(<<>>)
                   <=> CellAt(plData, obs'.row, obs'.col) = Null]_vars

\* The text the display rules give a cell that is not null: by its type,
\* grouped digits, grouped digits with two decimals, the date, the date and
\* time, or str().
DisplayByType(cell) ==
    CASE cell.t = "int" -> FormatInt(cell.n)
      [] cell.t = "float" -> FormatFloat2(cell.n)
      [] cell.t = "date" -> FormatDate(cell.n)
      [] cell.t = "datetime" -> FormatDateTime(cell.n, cell.tm)
      [] OTHER -> PyStr(cell)

\* C24: the model in use shows every cell that is not null (nor NaN) in the
\* format of its type, integers of a column of Python objects and date-only
\* values included.
C24_FormatByType ==
    \A row \in SourceRows, c \in 0..(ColumnCount - 1) :
        LET cell == CellAt(ModelData(lib), row, c)
        IN  cell.t \notin {"null", "nan"}
                => SourceData(row, c) = Str(DisplayByType(cell))

\* The frame of the model in use holds every row of the dataset once, each
\* with a cell for every column.
RowsPermuted ==
    LET data == ModelData(lib)
    IN  /\ Len(data) = Len(rows)
        /\ {data[i] : i \in 1..Len(data)} = 1..Len(rows)
        /\ \A i \in 1..Len(data) : Len(rows[data[i]]) = ColumnCount

\* C28: sort only permutes the rows: after any sequence of sort calls, failed
\* ones included, the model has the rows it was constructed with (each once,
\* so rowCount and the multiset of rows are kept), the same columns in the
\* same order, and a cell in every column of every row.
C28_SortPermutes ==
    /\ []RowsPermuted
    /\ [][columns' = columns /\ rows' = rows]_vars

\* A sort has put the rows in another order, and a later sort call failed.
C28_Witness ==
    /\ call[lib].fn = "sort" /\ call[lib].raised # "none"
    /\ ModelData(lib) # Ident(Len(rows))
    /\ Len(rows) = MaxRows

\* Every predicate of S is a predicate of T.
SubSpec(S, T) == \A k \in 1..Len(S) : InSeq(S[k], T)

KnownTypes == {"range", "text", "date", "bool"}

\* C29: filtering is monotone: when the specification the view had is part
\* of the one it has now, every row shown now was shown before (and the
\* other way round when the new one is part of the old); and a predicate
\* whose type is unknown or missing hides no row: the rows shown are those
\* shown without it.
C29_Monotone ==
    /\ hist.op # "none"
          => /\ SubSpec(hist.filters, filters)
                   => \A row \in SourceRows :
                         Shown(row) => InSeq(row, hist.visible)
             /\ SubSpec(filters, hist.filters)
                   => \A row \in SourceRows :
                         InSeq(row, hist.visible) => Shown(row)
    /\ \A k \in 1..Len(filters) :
          filters[k][2].type \notin KnownTypes
              => visible = AcceptedRows(Without(filters, k), 0)

\* A predicate of unknown type on the first column showed every row; a
\* second predicate was added to it and hides a row.
C29_Witness ==
    /\ hist.op = "apply_filters"
    /\ Len(hist.filters) = 1 /\ Len(filters) = 2
    /\ hist.filters[1][2].type \notin KnownTypes
    /\ SubSpec(hist.filters, filters)
    /\ Len(hist.visible) = SourceRowCount
    /\ Len(visible) < Len(hist.visible)

\* C30: get_filters emits a predicate for a column only when the column's
\* widget was moved off the value it was made with; so a dialog accepted
\* with every widget untouched yields the empty specification and leaves
\* every row shown, whatever the types of the dataset's columns.
C30_UntouchedDialogShowsAll ==
    hist.op = "filter_dialog"
        => /\ \A k \in 1..Len(filters) :
                 LET c == ColIndex(filters[k][1])
                 IN  hist.widgets[c + 1] # hist.made[c + 1]
           /\ hist.widgets = hist.made
                 => /\ filters = <<>>
                    /\ Len(visible) = SourceRowCount

\* The completion signals among those a thread emitted.
Completions(emitted) ==
    SelectSeq(emitted, LAMBDA e : e.sig \in {"data_loaded", "error_occurred"})

\* C26: every run of a loader thread emits exactly one completion signal,
\* data_loaded or error_occurred (a thread that has not run has emitted
\* none), and the dataset data_loaded carries is of the backend its data_lib
\* names, for every file extension and for generated test data.
C26_OneCompletion ==
    \A i \in 1..Len(app.threads) :
        LET t == app.threads[i]
            done == Completions(t.emitted)
        IN  /\ t.pc = "started" => t.emitted = <<>>
            /\ t.pc = "finished"
                  => /\ Len(done) = 1
                     /\ done[1].sig = "data_loaded"
                           => /\ done[1].data_lib = t.data_lib
                              /\ done[1].df.backend = t.data_lib

\* A thread for an Excel file with data_lib polars has delivered a polars
\* frame, and a thread for an unreadable file has reported an error.
C26_Witness ==
    /\ \E i \in 1..Len(app.threads) :
          /\ app.threads[i].file.ext = ".xlsx"
          /\ app.threads[i].data_lib = "polars"
          /\ Completions(app.threads[i].emitted)
                = <<DataLoaded(DataFrame("polars", <<".xlsx", "plain">>, FALSE),
                               "polars")>>
    /\ \E i \in 1..Len(app.threads) :
          /\ app.threads[i].file.holds = "unreadable"
          /\ Completions(app.threads[i].emitted) = <<ErrorOccurred>>

\* The dataset, the backend name and the table model of the main window.
Shown3 == <<app.current_data, app.current_data_lib, app.model>>

\* C27: whatever the order of load starts, thread runs, deliveries,
\* conversion requests and timer callbacks, once data are loaded
\* current_data_lib names the backend of current_data and the table model
\* in the view is of that backend and constructed over that dataset; and a
\* load or conversion that fails changes none of the three.
C27_WindowConsistent ==
    /\ [](app.current_data # NoFrame
            => /\ app.current_data.backend = app.current_data_lib
               /\ app.model = TableModel(app.current_data_lib,
                                         app.current_data))
    /\ [][app'.last.failed => Shown3' = Shown3]_vars

\* Two loads were delivered, the second of an Excel file with a column of
\* mixed values, and the conversion of its data to polars failed: the
\* window still shows the pandas frame.
C27_Witness ==
    /\ Len(app.threads) = 2
    /\ \A i \in 1..2 : app.threads[i].pc = "finished"
    /\ app.events = <<>>
    /\ app.current_data # NoFrame
    /\ app.threads[1].file # app.threads[2].file
    /\ app.current_data = DataFrame("pandas", <<".xlsx", "mixed">>, TRUE)
    /\ app.model = TableModel("pandas", app.current_data)
    /\ app.last = Handled("perform_conversion", TRUE)

=============================================================================
